---------------------------- MODULE Spec2Model ----------------------------
(***************************************************************************)
(* Query-by-humming backend: the window indexer (create_sliding_windows),  *)
(* the lazily built song index (SongDatabase) with its callers, and the    *)
(* JSON song database builder (matcher.create_song_database).              *)
(*                                                                         *)
(* Durations are exact rationals: a duration is a whole number of ticks of *)
(* 1/TicksPerSec second, and a time in seconds is a pair num/den.  Python  *)
(* floats agree with this arithmetic for the dyadic durations used here.   *)
(***************************************************************************)
EXTENDS Integers, Sequences, FiniteSets, TLC

(***************************************************************************)
(* Program constants (dsp_engine.py).                                      *)
(***************************************************************************)
SAMPLE_RATE == 22050
HOP_LENGTH == 512
WINDOW_DURATION_SEC == 15
WINDOW_OVERLAP_SEC == 5
MIN_VALID_FRAMES == 10

(***************************************************************************)
(* Bounds of the model.                                                    *)
(***************************************************************************)
TicksPerSec == 64          \* resolution of a duration: 1/64 s
MaxContourLen == 24        \* longest contour given to the window indexer
MaxWindowTicks == 20       \* longest window duration tried, in ticks

\* The loop of create_sliding_windows runs at most len + 1 times when the
\* step is positive; a run that exceeds this is cut here.
MaxIter == MaxContourLen + 2

NumThreads == 2            \* callers sharing one SongDatabase
MaxCalls == 3              \* calls issued on the SongDatabase in one run
MaxFiles == 2              \* entries of the songs directory
MaxFolders == 3            \* entries of the raw data directory
MaxIndexSongs == 2         \* songs of an index given to identify_melody
IndexWindowTicks == 18     \* window duration of that index, in ticks
IndexOverlapTicks == 6     \* window overlap of that index, in ticks
MaxTrackLen == 20          \* longest pitch track given to a normalizer
MaxShape == 3              \* melodic shapes of those tracks
MaxGap == 3                \* spacings of their unvoiced frames
MaxOctaves == 2            \* octaves a track is transposed by
MaxQuarters == 12          \* distances scored in steps of 1/4: up to 3
MaxSteps == 22             \* distances scored in steps of 250: up to 5500
MaxDbSongs == 2            \* songs of a database listed in any order
MaxTopN == 3               \* largest top_n given to find_best_matches
MaxSeqLen == 3             \* longest sequence given to a distance function
MaxPitches == 3            \* longest relative-pitch sequence compared
MaxMidiLen == 3            \* longest pitch sequence turned into intervals
MaxPitchFrames == 4        \* frames of the audio given to extract_features
MaxOnsets == 3             \* onsets detected in that audio
MaxAddFolders == 2         \* song folders add_new_songs finds, and entries of a database before it runs
MaxRuns == 2               \* runs of add_new_songs
MaxShortFrames == 14       \* frames of the short songs indexed with the default windows
LongSongFrames == 650      \* frames of the song that is longer than a default window

VARIABLES
    csw,         \* the frame of one call of create_sliding_windows
    directory,   \* the songs directory: whether it can be listed, its entries
    songs_cache, \* SongDatabase.songs_cache, a dict in insertion order
    loaded,      \* SongDatabase._loaded
    thr,         \* per caller: the call it is in, its position and its locals
    scans,       \* how many scans of the directory were started
    calls,       \* how many calls were issued
    raw_data,    \* RAW_DATA_DIR: whether it exists, its entries
    db_file,     \* what the file at SONG_DATABASE_PATH holds
    csd,         \* the frame of load_song_database / create_song_database
    im,          \* the frame of one call of identify_melody on a loaded index
    rq,          \* the frame of one /upload request and its find_best_matches
    pn,          \* the frame of one call of a pitch normalizer
    fn,          \* the frame of one call of a function of the matcher
    ad           \* the files add_new_songs works on, and its runs

vars == <<csw, directory, songs_cache, loaded, thr, scans, calls,
          raw_data, db_file, csd, im, rq, pn, fn, ad>>
winvars == <<csw>>
dbvars == <<directory, songs_cache, loaded, thr, scans, calls>>
csdvars == <<raw_data, db_file, csd>>
imvars == <<im>>
rqvars == <<rq>>
pnvars == <<pn>>
fnvars == <<fn>>
advars == <<ad>>

Min(a, b) == IF a <= b THEN a ELSE b

(***************************************************************************)
(* pitch_contour[a:b] for 0 <= a: Python clamps the slice to the sequence. *)
(***************************************************************************)
PySlice(s, a, b) == SubSeq(s, a + 1, Min(b, Len(s)))

(***************************************************************************)
(* int(seconds * frames_per_second) with frames_per_second = sr / HOP.     *)
(* int() truncates; the durations are non-negative, so it is the floor.    *)
(***************************************************************************)
FramesOf(ticks, sr) == (ticks * sr) \div (TicksPerSec * HOP_LENGTH)

window_frames(sr, window_ticks) == FramesOf(window_ticks, sr)

step_frames(sr, window_ticks, overlap_ticks) ==
    FramesOf(window_ticks - overlap_ticks, sr)

\* start_frame / frames_per_second, as the rational num/den
StartTime(start_frame, sr) == [num |-> start_frame * HOP_LENGTH, den |-> sr]

(***************************************************************************)
(* The frame of a call: the arguments and the locals of the function.      *)
(***************************************************************************)
CswEnter(pitch_contour, sr, window_ticks, overlap_ticks) ==
    [ pitch_contour |-> pitch_contour,
      sr            |-> sr,
      window_frames |-> window_frames(sr, window_ticks),
      step_frames   |-> step_frames(sr, window_ticks, overlap_ticks),
      windows       |-> << >>,
      start_frame   |-> 0,
      pc            |-> "loop" ]

\* Faulty variant: the loop stops one frame early: < for <=
CswGuardStrict(f) == f.start_frame + f.window_frames < Len(f.pitch_contour)

\* while start_frame + window_frames <= len(pitch_contour)
CswGuard(f) == f.start_frame + f.window_frames <= Len(f.pitch_contour)

\* Faulty variant: the next window starts where this one ends: the overlap is lost
CswAdvanceNoOverlap(f) == f.start_frame + f.window_frames

\* start_frame += step_frames
CswAdvance(f) == f.start_frame + f.step_frames

\* One iteration of the while loop.
CswBody(f) ==
    [ f EXCEPT
        !.windows = Append(@, << PySlice(f.pitch_contour, f.start_frame,
                                         f.start_frame + f.window_frames),
                                 StartTime(f.start_frame, f.sr) >>),
        !.start_frame = CswAdvance(f) ]

\* Faulty variant: the remainder is never kept
CswDropsPartial(window) == FALSE

\* Faulty variant: every non-empty remainder is kept
CswKeepsAnyPartial(window) == Len(window) > 0

\* Faulty variant: the threshold is off by one: > for >=
CswKeepsPartialStrict(window) == Len(window) > MIN_VALID_FRAMES

\* if len(window) >= MIN_VALID_FRAMES
CswKeepsPartial(window) == Len(window) >= MIN_VALID_FRAMES

\* The final partial window and the return.
CswTail(f) ==
    LET window == PySlice(f.pitch_contour, f.start_frame, Len(f.pitch_contour))
    IN  [ f EXCEPT
            !.windows =
                IF f.start_frame < Len(f.pitch_contour) /\ CswKeepsPartial(window)
                THEN Append(@, << window, StartTime(f.start_frame, f.sr) >>)
                ELSE @,
            !.pc = "done" ]

\* the whole function, as load_database calls it
RECURSIVE CswRun(_)
CswRun(f) == IF CswGuard(f) THEN CswRun(CswBody(f)) ELSE CswTail(f)

create_sliding_windows(pitch_contour, sr) ==
    CswRun(CswEnter(pitch_contour, sr, WINDOW_DURATION_SEC * TicksPerSec,
                    WINDOW_OVERLAP_SEC * TicksPerSec)).windows

\* no call of create_sliding_windows is being followed
CswIdle == [pc |-> "idle"]

\* no SongDatabase is in use
DbUnused ==
    /\ directory = [exists |-> FALSE, listing |-> << >>]
    /\ songs_cache = << >>
    /\ loaded = FALSE
    /\ thr = << >>
    /\ scans = 0
    /\ calls = 0

\* no song database file is being loaded or created
CsdUnused ==
    /\ raw_data = [exists |-> FALSE, listing |-> << >>]
    /\ db_file = [kind |-> "absent"]
    /\ csd = [pc |-> "idle"]

\* no identify_melody call on a loaded index is being followed
ImUnused == im = [pc |-> "idle"]

\* no request is being followed
RqUnused == rq = [pc |-> "idle"]

\* no normalizer call is being followed
PnUnused == pn = [pc |-> "idle"]
FnUnused == fn = [pc |-> "idle"]
AdUnused == ad = [pc |-> "idle"]

(***************************************************************************)
(* The contours given to the window indexer: two shapes of every length.   *)
(***************************************************************************)
Ramp(n) == [i \in 1..n |-> i - 1]
ZigZag(n) == [i \in 1..n |-> ((3 * i) % 5) - 2]
Contours == UNION { {Ramp(n), ZigZag(n)} : n \in 0..MaxContourLen }

\* window and overlap durations with 0 <= overlap < window
Durations ==
    { d \in (1..MaxWindowTicks) \X (0..MaxWindowTicks) : d[2] < d[1] }

InitWin ==
    /\ \E c \in Contours, d \in Durations :
           csw = CswEnter(c, SAMPLE_RATE, d[1], d[2])
    /\ DbUnused
    /\ CsdUnused
    /\ ImUnused
    /\ RqUnused
    /\ PnUnused
    /\ FnUnused
    /\ AdUnused

CswIterate ==
    /\ csw.pc = "loop"
    /\ CswGuard(csw)
    /\ Len(csw.windows) < MaxIter
    /\ csw' = CswBody(csw)
    /\ UNCHANGED <<dbvars, csdvars, imvars, rqvars, pnvars, fnvars, advars>>

CswFinish ==
    /\ csw.pc = "loop"
    /\ ~CswGuard(csw)
    /\ csw' = CswTail(csw)
    /\ UNCHANGED <<dbvars, csdvars, imvars, rqvars, pnvars, fnvars, advars>>

NextWin == CswIterate \/ CswFinish

SpecWin == InitWin /\ [][NextWin]_vars


(***************************************************************************)
(* SongDatabase (dsp_engine.py) and its callers.                           *)
(*                                                                         *)
(* A file name is a sequence of characters.  A pitch track f0 is a         *)
(* sequence of frequencies in Hz, NaN marking an unvoiced frame.  A        *)
(* normalized contour of n notes is held as its n numerators over the      *)
(* common denominator n: the value of note i is contour[i] / n semitones.  *)
(***************************************************************************)
\* the marker of an unvoiced frame: no frequency and no MIDI note equals it
NaN == -1

Letters == {"a", "b", "c", "A", "B", "C"}
Upper(c) == CASE c = "a" -> "A" [] c = "b" -> "B" [] c = "c" -> "C"
              [] c = "m" -> "M" [] c = "p" -> "P" [] c = "w" -> "W"
              [] c = "v" -> "V" [] c = "t" -> "T" [] c = "x" -> "X"
              [] OTHER -> c
Lower(c) == CASE c = "A" -> "a" [] c = "B" -> "b" [] c = "C" -> "c"
              [] c = "M" -> "m" [] c = "P" -> "p" [] c = "W" -> "w"
              [] c = "V" -> "v" [] c = "T" -> "t" [] c = "X" -> "x"
              [] OTHER -> c

\* str.lower()
StrLower(s) == [i \in 1..Len(s) |-> Lower(s[i])]

\* str.replace(old, new) for single characters
StrReplace(s, old, new) == [i \in 1..Len(s) |-> IF s[i] = old THEN new ELSE s[i]]

\* str.title(): a letter is upper case after a non-letter, lower case after
\* a letter
StrTitle(s) ==
    [i \in 1..Len(s) |->
        IF s[i] \in Letters
        THEN IF i = 1 \/ s[i - 1] \notin Letters THEN Upper(s[i]) ELSE Lower(s[i])
        ELSE s[i]]

\* the position of the last "." that starts a suffix, 0 if there is none
LastDot(name) ==
    LET dots == { i \in 2..Len(name) : name[i] = "." }
    IN  IF dots = {} THEN 0 ELSE CHOOSE i \in dots : \A j \in dots : j <= i

\* Path(name).suffix and Path(name).stem
PathSuffix(name) ==
    IF LastDot(name) = 0 THEN << >> ELSE SubSeq(name, LastDot(name), Len(name))
PathStem(name) ==
    IF LastDot(name) = 0 THEN name ELSE SubSeq(name, 1, LastDot(name) - 1)

audio_extensions ==
    { <<".", "m", "p", "3">>, <<".", "w", "a", "v">>, <<".", "f", "l", "a", "c">>,
      <<".", "o", "g", "g">>, <<".", "m", "4", "a">>, <<".", "w", "e", "b", "m">> }

\* SongDatabase._get_song_title
GetSongTitle(filename) ==
    StrTitle(StrReplace(StrReplace(PathStem(filename), "_", " "), "-", " "))

\* log2(f / ref) for a frequency a whole number of octaves from ref
RECURSIVE Log2Ratio(_, _)
Log2Ratio(f, ref) ==
    IF f = ref THEN 0
    ELSE IF f > ref THEN 1 + Log2Ratio(f, 2 * ref)
    ELSE Log2Ratio(2 * f, ref) - 1

\* Faulty variant: the frequency itself is taken for the note number
HzToMidiLinear(f) == f

\* librosa.hz_to_midi: 12 * log2(f / 440) + 69, NaN staying NaN
HzToMidi(f) == IF f = NaN THEN NaN ELSE 12 * Log2Ratio(f, 440) + 69

\* the sum of the elements, halves added up separately
RECURSIVE SeqSum(_)
SeqSum(s) ==
    IF s = << >> THEN 0
    ELSE IF Len(s) = 1 THEN s[1]
    ELSE SeqSum(SubSeq(s, 1, Len(s) \div 2))
         + SeqSum(SubSeq(s, Len(s) \div 2 + 1, Len(s)))

\* Faulty variant: every frame counts as voiced
IsVoicedAlways(x) == TRUE

IsVoiced(x) == x # NaN

\* Faulty variant: the check is off by one and lets a contour one frame short pass
TooFewFramesOffByOne(valid_notes) == Len(valid_notes) < MIN_VALID_FRAMES - 1

\* if len(valid_notes) < MIN_VALID_FRAMES: raise ValueError
TooFewFrames(valid_notes) == Len(valid_notes) < MIN_VALID_FRAMES

\* normalize_pitch_contour: the ValueError, or the notes minus their mean
normalize_pitch_contour(f0) ==
    LET midi_notes == [i \in 1..Len(f0) |-> HzToMidi(f0[i])]
        valid_notes == SelectSeq(midi_notes, IsVoiced)
        n == Len(valid_notes)
        total == SeqSum(valid_notes)
    IN  IF TooFewFrames(valid_notes)
        THEN [raised |-> "ValueError", value |-> << >>]
        ELSE [raised |-> "",
              value |-> [i \in 1..n |-> n * valid_notes[i] - total]]

(***************************************************************************)
(* dict operations on songs_cache: a sequence of items in insertion order. *)
(***************************************************************************)
DictKeys(d) == { d[i].key : i \in 1..Len(d) }

\* d[key] = val: a new key is appended, an old key keeps its place
DictSet(d, key, val) ==
    IF key \in DictKeys(d)
    THEN [i \in 1..Len(d) |-> IF d[i].key = key THEN [key |-> key, val |-> val]
                                                ELSE d[i]]
    ELSE Append(d, [key |-> key, val |-> val])

(***************************************************************************)
(* The files a songs directory may hold: what load_audio does with each    *)
(* and the pitch track extract_pitch_contour gives for it.                 *)
(***************************************************************************)
Files ==
    { [ name |-> <<"a", "_", "b", ".", "m", "p", "3">>, readable |-> TRUE,
        f0 |-> <<440, 440, NaN, 880, 440, 220, 440, 440, 880, 440, NaN, 220>> ],
      [ name |-> <<"a", "-", "b", ".", "W", "A", "V">>, readable |-> TRUE,
        f0 |-> <<220, 440, 440, 220, 110, 220, 440, 220, 220, 440, 220>> ],
      [ name |-> <<"c", ".", "m", "p", "3">>, readable |-> TRUE,
        f0 |-> <<440, NaN, 880, 440, 220, NaN, 440, 880, 440, 220, 440, NaN>> ],
      [ name |-> <<"b", ".", "t", "x", "t">>, readable |-> TRUE,
        f0 |-> << >> ],
      [ name |-> <<"a", ".", "o", "g", "g">>, readable |-> FALSE,
        f0 |-> << >> ] }

\* the listings of a directory: its files in any order
Listings ==
    { l \in UNION { [1..n -> Files] : n \in 0..MaxFiles } :
        \A i, j \in 1..Len(l) : i # j => l[i] # l[j] }

\* the hums given to identify_melody
Hums ==
    { [ readable |-> TRUE,
        f0 |-> <<440, 880, 440, 220, 440, NaN, 880, 440, 220, 440, 440>> ],
      [ readable |-> TRUE, f0 |-> <<440, NaN, 880, 440>> ],
      [ readable |-> FALSE, f0 |-> << >> ] }

Threads == 1..NumThreads

ThreadIdle == [pc |-> "idle", op |-> "", cont |-> "", idx |-> 0,
               loaded_count |-> 0, ret |-> [kind |-> "none"]]

InitDb ==
    /\ csw = CswIdle
    /\ \E e \in BOOLEAN, l \in Listings :
           directory = [exists |-> e, listing |-> IF e THEN l ELSE << >>]
    /\ songs_cache = << >>
    /\ loaded = FALSE
    /\ thr = [t \in Threads |-> ThreadIdle]
    /\ scans = 0
    /\ calls = 0
    /\ CsdUnused
    /\ ImUnused
    /\ RqUnused
    /\ PnUnused
    /\ FnUnused
    /\ AdUnused

\* the call ends: with a value, or with an exception that nothing catches
Return(r, ret) == [r EXCEPT !.pc = "idle", !.ret = ret]
Raise(r, exc) == [r EXCEPT !.pc = "idle", !.ret = [kind |-> "raised", exc |-> exc]]

\* load_database has returned n to its caller
AfterLoad(r, n) ==
    CASE r.cont = "load_database" -> Return(r, [kind |-> "count", n |-> n])
      [] r.cont = "get_all_songs" -> Return(r, [kind |-> "songs_cache"])
      [] r.cont = "identify_melody" ->
           IF n = 0 THEN Return(r, [kind |-> "match", match |-> "None"])
           ELSE [r EXCEPT !.pc = "im_hum"]
      [] r.cont = "identify_melody.get_all_songs" ->
           [r EXCEPT !.pc = "im_iter", !.idx = 1]

\* Faulty variant: the flag is never honoured
DbLoadedNever == FALSE

\* if self._loaded
DbLoaded == loaded

\* A caller starts load_database, get_all_songs or identify_melody on the
\* shared SongDatabase.
Call(t, op) ==
    /\ thr[t].pc = "idle"
    /\ calls < MaxCalls
    /\ calls' = calls + 1
    /\ thr' = [thr EXCEPT ![t] =
                 [ThreadIdle EXCEPT
                    !.op = op,
                    !.cont = IF op = "get_all_songs" THEN "" ELSE op,
                    !.pc = IF op = "get_all_songs" THEN "gas_enter" ELSE "ld_enter"]]
    /\ UNCHANGED <<imvars, rqvars, pnvars, csdvars, csw, directory, songs_cache, loaded, scans, fnvars, advars>>

\* the same, for a caller that waits for the previous call to end
CallSeq(t, op) ==
    /\ \A u \in Threads : thr[u].pc = "idle"
    /\ Call(t, op)

\* get_all_songs: if not self._loaded: self.load_database(); return songs_cache
GasEnter(t) ==
    /\ thr[t].pc = "gas_enter"
    /\ thr' = [thr EXCEPT ![t] =
                 IF ~DbLoaded
                 THEN [@ EXCEPT !.pc = "ld_enter", !.cont = "get_all_songs"]
                 ELSE Return(@, [kind |-> "songs_cache"])]
    /\ UNCHANGED <<imvars, rqvars, pnvars, csdvars, csw, directory, songs_cache, loaded, scans, calls, fnvars, advars>>

\* load_database, already loaded: return len(self.songs_cache)
LdCached(t) ==
    /\ thr[t].pc = "ld_enter"
    /\ DbLoaded
    /\ thr' = [thr EXCEPT ![t] = AfterLoad(@, Len(songs_cache))]
    /\ UNCHANGED <<imvars, rqvars, pnvars, csdvars, csw, directory, songs_cache, loaded, scans, calls, fnvars, advars>>

\* load_database, the directory cannot be listed: iterdir() raises
LdListFails(t) ==
    /\ thr[t].pc = "ld_enter"
    /\ ~DbLoaded
    /\ ~directory.exists
    /\ thr' = [thr EXCEPT ![t] = Raise(@, "FileNotFoundError")]
    /\ UNCHANGED <<imvars, rqvars, pnvars, csdvars, csw, directory, songs_cache, loaded, scans, calls, fnvars, advars>>

\* load_database, not loaded: loaded_count = 0 and the scan starts
LdBegin(t) ==
    /\ thr[t].pc = "ld_enter"
    /\ ~DbLoaded
    /\ directory.exists
    /\ scans' = scans + 1
    /\ thr' = [thr EXCEPT ![t] = [@ EXCEPT !.pc = "ld_loop", !.idx = 1,
                                              !.loaded_count = 0]]
    /\ UNCHANGED <<imvars, rqvars, pnvars, csdvars, csw, directory, songs_cache, loaded, calls, fnvars, advars>>

\* What one iteration of the loop does with a file: "skipped" (not an audio
\* file), "failed" (an exception, caught), "insufficient" (the ValueError of
\* normalize_pitch_contour, caught) or "stored" with the cache entry.
ProcessFile(file) ==
    IF StrLower(PathSuffix(file.name)) \notin audio_extensions
    THEN [outcome |-> "skipped"]
    ELSE IF ~file.readable
    THEN [outcome |-> "failed"]
    ELSE LET normalized == normalize_pitch_contour(file.f0)
         IN  IF normalized.raised # ""
             THEN [outcome |-> "insufficient"]
             ELSE [outcome |-> "stored",
                   song_title |-> GetSongTitle(file.name),
                   entry |-> [ file_path |-> file.name,
                               full_contour |-> normalized.value,
                               windows |-> create_sliding_windows(
                                               normalized.value, SAMPLE_RATE),
                               sample_rate |-> SAMPLE_RATE ]]

\* one iteration of the loop over the directory
LdFile(t) ==
    /\ thr[t].pc = "ld_loop"
    /\ thr[t].idx <= Len(directory.listing)
    /\ LET p == ProcessFile(directory.listing[thr[t].idx])
       IN  IF p.outcome = "stored"
           THEN /\ songs_cache' = DictSet(songs_cache, p.song_title, p.entry)
                /\ thr' = [thr EXCEPT ![t] =
                             [@ EXCEPT !.idx = @ + 1,
                                       !.loaded_count = @ + 1]]
           ELSE /\ songs_cache' = songs_cache
                /\ thr' = [thr EXCEPT ![t] = [@ EXCEPT !.idx = @ + 1]]
    /\ UNCHANGED <<imvars, rqvars, pnvars, csdvars, csw, directory, loaded, scans, calls, fnvars, advars>>

\* the loop is over: self._loaded = True; return loaded_count
LdFinish(t) ==
    /\ thr[t].pc = "ld_loop"
    /\ thr[t].idx > Len(directory.listing)
    /\ loaded' = TRUE
    /\ thr' = [thr EXCEPT ![t] = AfterLoad(@, thr[t].loaded_count)]
    /\ UNCHANGED <<imvars, rqvars, pnvars, csdvars, csw, directory, songs_cache, scans, calls, fnvars, advars>>

\* identify_melody, the hum: load_audio, extract_pitch_contour and
\* normalize_pitch_contour; an exception is logged and raised again
ImHum(t) ==
    /\ thr[t].pc = "im_hum"
    /\ \E hum \in Hums :
          thr' = [thr EXCEPT ![t] =
                    IF ~hum.readable THEN Raise(@, "Exception")
                    ELSE IF normalize_pitch_contour(hum.f0).raised # ""
                    THEN Raise(@, "ValueError")
                    ELSE [@ EXCEPT !.pc = "im_songs"]]
    /\ UNCHANGED <<imvars, rqvars, pnvars, csdvars, csw, directory, songs_cache, loaded, scans, calls, fnvars, advars>>

\* identify_melody: database.get_all_songs().items(), the loop starts
ImSongs(t) ==
    /\ thr[t].pc = "im_songs"
    /\ thr' = [thr EXCEPT ![t] =
                 IF ~DbLoaded
                 THEN [@ EXCEPT !.pc = "ld_enter",
                                !.cont = "identify_melody.get_all_songs"]
                 ELSE [@ EXCEPT !.pc = "im_iter", !.idx = 1]]
    /\ UNCHANGED <<imvars, rqvars, pnvars, csdvars, csw, directory, songs_cache, loaded, scans, calls, fnvars, advars>>

\* identify_melody: the loop reads the next item of songs_cache
ImIter(t) ==
    /\ thr[t].pc = "im_iter"
    /\ thr[t].idx <= Len(songs_cache)
    /\ thr' = [thr EXCEPT ![t] = [@ EXCEPT !.idx = @ + 1]]
    /\ UNCHANGED <<imvars, rqvars, pnvars, csdvars, csw, directory, songs_cache, loaded, scans, calls, fnvars, advars>>

\* identify_melody: the loop is over, the best match is returned
ImReturn(t) ==
    /\ thr[t].pc = "im_iter"
    /\ thr[t].idx > Len(songs_cache)
    /\ thr' = [thr EXCEPT ![t] = Return(@, [kind |-> "match", match |-> "best_match"])]
    /\ UNCHANGED <<imvars, rqvars, pnvars, csdvars, csw, directory, songs_cache, loaded, scans, calls, fnvars, advars>>

Ops == {"load_database", "get_all_songs", "identify_melody"}

Step(t) ==
    \/ GasEnter(t)
    \/ LdCached(t)
    \/ LdListFails(t)
    \/ LdBegin(t)
    \/ LdFile(t)
    \/ LdFinish(t)
    \/ ImHum(t)
    \/ ImSongs(t)
    \/ ImIter(t)
    \/ ImReturn(t)

\* callers that run concurrently
Next == \E t \in Threads : (\E op \in Ops : Call(t, op)) \/ Step(t)

Spec == InitDb /\ [][Next]_vars

\* callers that run one after the other
NextSeq == \E t \in Threads : (\E op \in Ops : CallSeq(t, op)) \/ Step(t)

SpecSeq == InitDb /\ [][NextSeq]_vars

(***************************************************************************)
(* Properties of create_sliding_windows.                                   *)
(***************************************************************************)
\* the frame offset of a returned window, from its start time
StartFrameOf(w) == w[2].num \div HOP_LENGTH
WindowEnd(w) == StartFrameOf(w) + Len(w[1])
ContourLen == Len(csw.pitch_contour)

\* the offsets 0, step, 2*step, ... at which a full window fits
FullStarts ==
    { s \in 0..ContourLen :
        /\ s + csw.window_frames <= ContourLen
        /\ \E j \in 0..ContourLen : s = j * csw.step_frames }
NumFull == Cardinality(FullStarts)

\* C1: the full windows are exactly those at the offsets 0, step, 2*step, ...
\* with start + window_frames <= len(contour), in increasing order of start;
\* none is missing and no full window is emitted at another offset.
C1_FullWindowsAtStepOffsets ==
    /\ \A i \in 1..Len(csw.windows) :
           StartFrameOf(csw.windows[i]) = (i - 1) * csw.step_frames
    /\ csw.pc = "done" =>
         /\ Len(csw.windows) >= NumFull
         /\ \A i \in 1..NumFull :
              /\ StartFrameOf(csw.windows[i]) \in FullStarts
              /\ csw.windows[i][1] =
                   SubSeq(csw.pitch_contour, (i - 1) * csw.step_frames + 1,
                          (i - 1) * csw.step_frames + csw.window_frames)
              /\ \A k \in 1..(i - 1) :
                   StartFrameOf(csw.windows[k]) < StartFrameOf(csw.windows[i])
         /\ \A s \in FullStarts :
              \E i \in 1..NumFull : StartFrameOf(csw.windows[i]) = s
         /\ \A i \in (NumFull + 1)..Len(csw.windows) :
              Len(csw.windows[i][1]) # csw.window_frames

\* C1 witness: a returned list with three overlapping full windows, the last
\* of which ends exactly at the end of the contour.
C1_Witness ==
    /\ csw.pc = "done"
    /\ NumFull >= 3
    /\ csw.step_frames < csw.window_frames
    /\ WindowEnd(csw.windows[NumFull]) = ContourLen

\* C2: every window is a contiguous slice of the contour ending at or before
\* its end; its length is window_frames, except possibly for the last window
\* of the result, whose length is then >= MIN_VALID_FRAMES and < window_frames.
C2_WindowsAreSlices ==
    \A i \in 1..Len(csw.windows) :
        LET w == csw.windows[i]
            s == StartFrameOf(w)
        IN  /\ w[1] = SubSeq(csw.pitch_contour, s + 1, s + Len(w[1]))
            /\ s + Len(w[1]) <= ContourLen
            /\ \/ Len(w[1]) = csw.window_frames
               \/ /\ i = Len(csw.windows)
                  /\ csw.pc = "done"
                  /\ Len(w[1]) >= MIN_VALID_FRAMES
                  /\ Len(w[1]) < csw.window_frames

\* C2 witness: full windows followed by a shorter final window.
C2_Witness ==
    /\ csw.pc = "done"
    /\ Len(csw.windows) >= 3
    /\ Len(csw.windows[Len(csw.windows)][1]) < csw.window_frames

\* C3: after the last full window exactly one partial window, covering the
\* contour from the next step offset to its end, is emitted if and only if
\* frames remain at that offset and they are at least MIN_VALID_FRAMES;
\* otherwise no partial window is emitted.
C3_PartialWindowIff ==
    csw.pc = "done" =>
        LET next == NumFull * csw.step_frames
            remaining == ContourLen - next
        IN  IF next < ContourLen /\ remaining >= MIN_VALID_FRAMES
            THEN /\ Len(csw.windows) = NumFull + 1
                 /\ csw.windows[NumFull + 1] =
                      << SubSeq(csw.pitch_contour, next + 1, ContourLen),
                         StartTime(next, csw.sr) >>
            ELSE Len(csw.windows) = NumFull

\* C3 witness: a partial window of exactly MIN_VALID_FRAMES frames after a
\* full window.
C3_Witness ==
    /\ csw.pc = "done"
    /\ NumFull >= 1
    /\ Len(csw.windows) = NumFull + 1
    /\ Len(csw.windows[NumFull + 1][1]) = MIN_VALID_FRAMES

\* C4: when at least one window is returned, consecutive start offsets differ
\* by exactly step and the last window ends at or after
\* len(contour) - window_frames.
C4_StepAndCoverage ==
    (csw.pc = "done" /\ csw.windows # << >>) =>
        /\ \A i \in 1..(Len(csw.windows) - 1) :
               StartFrameOf(csw.windows[i + 1]) - StartFrameOf(csw.windows[i])
                   = csw.step_frames
        /\ WindowEnd(csw.windows[Len(csw.windows)])
               >= ContourLen - csw.window_frames

\* C4 witness: overlapping windows whose short tail is dropped, so that the
\* last window ends before the end of the contour.
C4_Witness ==
    /\ csw.pc = "done"
    /\ Len(csw.windows) >= 3
    /\ csw.step_frames < csw.window_frames
    /\ WindowEnd(csw.windows[Len(csw.windows)]) < ContourLen

\* C5: with overlap < window the start frame strictly advances on every loop
\* iteration (also after the durations are truncated to whole frames), so the
\* loop ends and a finite list is returned.
C5_StartFrameAdvances ==
    [][CswIterate => csw'.start_frame > csw.start_frame]_vars

(***************************************************************************)
(* Properties of SongDatabase.                                             *)
(***************************************************************************)
ListedFiles == { directory.listing[i] : i \in 1..Len(directory.listing) }

VoicedCount(f0) == Cardinality({ i \in 1..Len(f0) : f0[i] # NaN })

\* the files of the corpus whose processing succeeds
Succeeds(file) ==
    /\ StrLower(PathSuffix(file.name)) \in audio_extensions
    /\ file.readable
    /\ VoicedCount(file.f0) >= MIN_VALID_FRAMES

\* the index one complete scan of the directory builds
RECURSIVE ScanFrom(_, _)
ScanFrom(cache, i) ==
    IF i > Len(directory.listing) THEN cache
    ELSE LET p == ProcessFile(directory.listing[i])
         IN  ScanFrom(IF p.outcome = "stored"
                      THEN DictSet(cache, p.song_title, p.entry) ELSE cache,
                      i + 1)
BuiltIndex == ScanFrom(<< >>, 1)

Returned(t) == thr[t].pc = "idle" /\ thr[t].ret.kind \in {"count", "songs_cache", "match"}

\* C6: with calls made one after the other, the directory is scanned at most
\* once; every call that returns does so with the index built by exactly one
\* scan, and once the index is loaded no call changes songs_cache.
C6_BuiltOnceSequential ==
    /\ [](/\ scans <= 1
          /\ \A t \in Threads : Returned(t) => (scans = 1 /\ loaded))
    /\ [][loaded => songs_cache' = songs_cache]_vars

\* C6 witness: three calls have returned on a non-empty index after one scan.
C6_Witness ==
    /\ calls >= 3
    /\ \A t \in Threads : Returned(t)
    /\ scans = 1
    /\ songs_cache # << >>

\* C7: with concurrent callers the index is built at most once: at most one
\* scan of the directory is ever started and at most one is in flight.
C7_SingleBuildInFlight ==
    /\ scans <= 1
    /\ Cardinality({ t \in Threads : thr[t].pc = "ld_loop" }) <= 1

\* a caller holding the dict get_all_songs returned, or iterating over it
IsReader(t) ==
    \/ thr[t].pc = "im_iter"
    \/ thr[t].pc = "idle" /\ thr[t].ret.kind = "songs_cache"

\* C8: whatever the interleaving, a reader of get_all_songs sees the whole
\* index a build produces, never another state of songs_cache.
C8_ReadersSeeWholeIndex ==
    \A t \in Threads : IsReader(t) => songs_cache = BuiltIndex

\* C9: the scan never fails on a song: a song that cannot be processed is
\* skipped, every entry of songs_cache comes from a file whose processing
\* succeeds (so never from one with fewer than MIN_VALID_FRAMES voiced
\* frames), and once loaded the indexed titles are exactly those of the files
\* that succeed; these are the only songs the matching loop reads.
C9_OnlySuccessfulSongsIndexed ==
    /\ \A i \in 1..Len(songs_cache) :
          \E file \in ListedFiles :
             /\ Succeeds(file)
             /\ songs_cache[i].key = GetSongTitle(file.name)
             /\ songs_cache[i].val.file_path = file.name
             /\ Len(songs_cache[i].val.full_contour) = VoicedCount(file.f0)
    /\ loaded =>
          DictKeys(songs_cache) =
             { GetSongTitle(file.name) : file \in { f \in ListedFiles : Succeeds(f) } }
    /\ \A t \in Threads :
          /\ thr[t].pc = "ld_loop" =>
                /\ thr[t].idx \in 1..(Len(directory.listing) + 1)
                /\ \A i \in 1..(thr[t].idx - 1) :
                      Succeeds(directory.listing[i]) =>
                         GetSongTitle(directory.listing[i].name)
                            \in DictKeys(songs_cache)
          /\ (thr[t].pc = "idle" /\ thr[t].ret.kind = "raised"
                 /\ thr[t].op # "identify_melody") => ~directory.exists

\* C9 witness: a scan over a song with too few voiced frames and a good song
\* has ended, and only the good song is indexed.
C9_Witness ==
    /\ loaded
    /\ \E f, g \in ListedFiles :
          /\ Succeeds(g)
          /\ ~Succeeds(f)
          /\ f.readable
          /\ StrLower(PathSuffix(f.name)) \in audio_extensions
    /\ Len(songs_cache) = 1
    /\ \E t \in Threads : thr[t].pc = "idle" /\ thr[t].ret.kind = "count"

(***************************************************************************)
(* matcher.load_song_database and matcher.create_song_database.            *)
(*                                                                         *)
(* A song folder holds files; for an audio file the environment fixes what *)
(* pitch.load_audio returns (None when the file cannot be decoded) and     *)
(* what melody.extract_features returns (None, or the feature dict).       *)
(***************************************************************************)
\* Python's None
None == [none |-> TRUE]
\* a local that no assignment has bound yet
Unbound == << "unbound" >>

\* the samples pitch.load_audio returns for a file it can decode
Audio == [samples |-> "audio"]

csd_extensions ==
    { <<".", "m", "p", "3">>, <<".", "w", "a", "v">>, <<".", "o", "g", "g">>,
      <<".", "m", "4", "a">>, <<".", "f", "l", "a", "c">> }

Features(relative_pitches, onset_count) ==
    [ tempo |-> 120, relative_pitches |-> relative_pitches,
      pitch_count |-> Len(relative_pitches), duration |-> 30,
      onset_count |-> onset_count ]

AudioFile(name, audio, features) ==
    [name |-> name, audio |-> audio, features |-> features]
OtherFile(name) == [name |-> name, audio |-> None, features |-> None]

SongFolders ==
    { [ name |-> <<"a", "_", "b">>, is_dir |-> TRUE,
        files |-> << OtherFile(<<"c", ".", "t", "x", "t">>),
                     AudioFile(<<"a", ".", "m", "p", "3">>, Audio,
                               Features(<<2, -1, 3>>, 5)) >> ],
      [ name |-> <<"b">>, is_dir |-> TRUE,
        files |-> << AudioFile(<<"b", ".", "W", "A", "V">>, Audio,
                               Features(<<-2, 2>>, 4)) >> ],
      [ name |-> <<"c">>, is_dir |-> TRUE,
        files |-> << AudioFile(<<"c", ".", "m", "p", "3">>, Audio,
                               Features(<< >>, 2)) >> ],
      [ name |-> <<"a", "a">>, is_dir |-> TRUE,
        files |-> << AudioFile(<<"a", ".", "o", "g", "g">>, Audio, None) >> ],
      [ name |-> <<"b", "b">>, is_dir |-> TRUE,
        files |-> << AudioFile(<<"b", ".", "m", "p", "3">>, None, None) >> ],
      [ name |-> <<"c", "c">>, is_dir |-> TRUE,
        files |-> << OtherFile(<<"c", ".", "t", "x", "t">>) >> ],
      [ name |-> <<"a", ".", "t", "x", "t">>, is_dir |-> FALSE,
        files |-> << >> ] }

FolderListings ==
    { l \in UNION { [1..n -> SongFolders] : n \in 0..MaxFolders } :
        \A i, j \in 1..Len(l) : i # j => l[i] # l[j] }

\* what SONG_DATABASE_PATH holds before the call
DbFiles ==
    { [kind |-> "absent"], [kind |-> "corrupt"],
      [kind |-> "json", type |-> "dict", value |-> << >>],
      [kind |-> "json", type |-> "list", value |-> << >>] }

\* isinstance(database, list)
IsJsonList(f) == f.type = "list"

InitCsd ==
    /\ csw = CswIdle
    /\ DbUnused
    /\ ImUnused
    /\ RqUnused
    /\ PnUnused
    /\ FnUnused
    /\ AdUnused
    /\ \E e \in BOOLEAN, l \in FolderListings :
          raw_data = [exists |-> e, listing |-> IF e THEN l ELSE << >>]
    /\ db_file \in DbFiles
    /\ csd = [pc |-> "lsd_enter"]

\* load_song_database: the file exists and holds a list, which is returned
LsdReturnsFile ==
    /\ csd.pc = "lsd_enter"
    /\ db_file.kind = "json"
    /\ IsJsonList(db_file)
    /\ csd' = [pc |-> "returned", via |-> "file", result |-> db_file.value]
    /\ UNCHANGED <<raw_data, db_file, winvars, dbvars, imvars, rqvars, pnvars, fnvars, advars>>

\* load_song_database: no file, a file json.load fails on, or a value that
\* is no list: create_song_database is called; database = [], song_name is
\* not bound yet
LsdCreates ==
    /\ csd.pc = "lsd_enter"
    /\ \/ db_file.kind = "absent"
       \/ db_file.kind = "corrupt"
       \/ db_file.kind = "json" /\ ~IsJsonList(db_file)
    /\ csd' = [pc |-> IF raw_data.exists THEN "folders" ELSE "save",
               idx |-> 1, database |-> << >>, song_name |-> Unbound]
    /\ UNCHANGED <<raw_data, db_file, winvars, dbvars, imvars, rqvars, pnvars, fnvars, advars>>

\* the first file of the folder with an audio suffix, None if there is none
FindAudioFile(files) ==
    LET hits == { i \in 1..Len(files) :
                    StrLower(PathSuffix(files[i].name)) \in csd_extensions }
    IN  IF hits = {} THEN None
        ELSE files[CHOOSE i \in hits : \A j \in hits : i <= j]

\* features and features.get('relative_pitches')
HasRelativePitches(features) ==
    features # None /\ features.relative_pitches # << >>

\* song_folder.name.replace('_', ' ').title()
SongName(folder) == StrTitle(StrReplace(folder.name, "_", " "))

\* if audio is None
AudioMissing(audio) == audio = None

\* What one iteration does with a folder: "skip" (no directory, no audio
\* file, or audio that could not be loaded), "add" (features with relative
\* pitches) or "reject" (the else branch, which prints song_name).
FolderOutcome(folder) ==
    IF ~folder.is_dir THEN "skip"
    ELSE LET audio_file == FindAudioFile(folder.files)
         IN  IF audio_file = None THEN "skip"
             ELSE IF AudioMissing(audio_file.audio) THEN "skip"
             ELSE IF HasRelativePitches(audio_file.features) THEN "add"
             ELSE "reject"

CsdFolderNow == raw_data.listing[csd.idx]

CsdAtFolder ==
    /\ csd.pc = "folders"
    /\ csd.idx <= Len(raw_data.listing)

\* the folder is passed over
CsdSkip ==
    /\ CsdAtFolder
    /\ FolderOutcome(CsdFolderNow) = "skip"
    /\ csd' = [csd EXCEPT !.idx = @ + 1]
    /\ UNCHANGED <<raw_data, db_file, winvars, dbvars, imvars, rqvars, pnvars, fnvars, advars>>

\* song_name is bound and the song is appended to database
CsdAdd ==
    /\ CsdAtFolder
    /\ FolderOutcome(CsdFolderNow) = "add"
    /\ LET audio_file == FindAudioFile(CsdFolderNow.files)
           features == audio_file.features
       IN  csd' = [csd EXCEPT
                     !.idx = @ + 1,
                     !.song_name = SongName(CsdFolderNow),
                     !.database = Append(@,
                        [ name |-> SongName(CsdFolderNow),
                          path |-> <<CsdFolderNow.name, audio_file.name>>,
                          tempo |-> features.tempo,
                          relative_pitches |-> features.relative_pitches,
                          pitch_count |-> features.pitch_count,
                          duration |-> features.duration,
                          onset_count |-> features.onset_count ])]
    /\ UNCHANGED <<raw_data, db_file, winvars, dbvars, imvars, rqvars, pnvars, fnvars, advars>>

\* the else branch with song_name bound by an earlier folder: the message
\* names that earlier song, and the loop goes on
CsdReject ==
    /\ CsdAtFolder
    /\ FolderOutcome(CsdFolderNow) = "reject"
    /\ csd.song_name # Unbound
    /\ csd' = [csd EXCEPT !.idx = @ + 1]
    /\ UNCHANGED <<raw_data, db_file, winvars, dbvars, imvars, rqvars, pnvars, fnvars, advars>>

\* the else branch with song_name not bound: the print raises
\* UnboundLocalError, the except clause prints song_name too and raises it
\* again, and this exception leaves create_song_database
CsdRejectUnbound ==
    /\ CsdAtFolder
    /\ FolderOutcome(CsdFolderNow) = "reject"
    /\ csd.song_name = Unbound
    /\ csd' = [csd EXCEPT !.pc = "raised"]
    /\ UNCHANGED <<raw_data, db_file, winvars, dbvars, imvars, rqvars, pnvars, fnvars, advars>>

\* the loop is over
CsdLoopEnd ==
    /\ csd.pc = "folders"
    /\ csd.idx > Len(raw_data.listing)
    /\ csd' = [csd EXCEPT !.pc = "save"]
    /\ UNCHANGED <<raw_data, db_file, winvars, dbvars, imvars, rqvars, pnvars, fnvars, advars>>

\* json.dump(database, f); return database
CsdSave ==
    /\ csd.pc = "save"
    /\ db_file' = [kind |-> "json", type |-> "list", value |-> csd.database]
    /\ csd' = [pc |-> "returned", via |-> "create", result |-> csd.database]
    /\ UNCHANGED <<raw_data, winvars, dbvars, imvars, rqvars, pnvars, fnvars, advars>>

NextCsd ==
    \/ LsdReturnsFile
    \/ LsdCreates
    \/ CsdSkip
    \/ CsdAdd
    \/ CsdReject
    \/ CsdRejectUnbound
    \/ CsdLoopEnd
    \/ CsdSave

SpecCsd == InitCsd /\ [][NextCsd]_vars

(***************************************************************************)
(* Properties of create_song_database.                                     *)
(***************************************************************************)
\* the songs of the corpus that can be added, in the order of the listing
RECURSIVE AddableFrom(_)
AddableFrom(i) ==
    IF i > Len(raw_data.listing) THEN << >>
    ELSE IF FolderOutcome(raw_data.listing[i]) = "add"
         THEN << SongName(raw_data.listing[i]) >> \o AddableFrom(i + 1)
         ELSE AddableFrom(i + 1)

\* C10: create_song_database completes for every corpus and every order of
\* the folders: no exception leaves it, it goes through all folders, and it
\* writes and returns the list of the songs that succeeded.
C10_CreateSkipsAndCompletes ==
    /\ csd.pc # "raised"
    /\ (csd.pc = "returned" /\ csd.via = "create") =>
          /\ db_file = [kind |-> "json", type |-> "list", value |-> csd.result]
          /\ [i \in 1..Len(csd.result) |-> csd.result[i].name] = AddableFrom(1)

(***************************************************************************)
(* compute_dtw_distance (dsp_engine.py): fastdtw with its default radius   *)
(* and the euclidean distance of one-element vectors, as the library's     *)
(* reference implementation computes it.  Cells <<i, j>> are 0-based.  The *)
(* cost table D maps a 1-based cell to its cost and its predecessor; a     *)
(* cell that was never set, or one with fin = FALSE, has the cost inf.     *)
(***************************************************************************)
Abs(a) == IF a < 0 THEN -a ELSE a

\* fastdtw(x, y, radius=1, dist=None): the default radius
FASTDTW_RADIUS == 1

\* min((D[i-1, j][0] + dt, i-1, j), (D[i, j-1][0] + dt, i, j-1),
\*     (D[i-1, j-1][0] + dt, i-1, j-1), key=lambda a: a[0]):
\* the first of the three with the least cost
DtwCell(D, i, j, dt) ==
    LET up == <<i - 1, j>>
        left == <<i, j - 1>>
        diag == <<i - 1, j - 1>>
        Fin(c) == D[c].fin
        Less(a, b) == Fin(a) /\ (~Fin(b) \/ D[a].cost < D[b].cost)
        first == IF Less(left, up) THEN left ELSE up
        best == IF Less(diag, first) THEN diag ELSE first
    IN  [ set  |-> TRUE,
          fin  |-> Fin(best),
          cost |-> IF Fin(best) THEN D[best].cost + dt ELSE 0,
          pi   |-> best[1],
          pj   |-> best[2] ]

\* for i, j in window: D[i, j] = ..., the cells lo..hi of one row (a window
\* lists no cell twice: a cell is set once)
RECURSIVE DtwRow(_, _, _, _, _, _)
DtwRow(x, y, i, j, hi, D) ==
    IF j > hi \/ D[<<i, j>>].set THEN D
    ELSE DtwRow(x, y, i, j + 1, hi,
                [D EXCEPT ![<<i, j>>] = DtwCell(D, i, j, Abs(x[i] - y[j]))])

\* for i, j in window: D[i, j] = ..., row after row
RECURSIVE DtwFill(_, _, _, _, _)
DtwFill(x, y, window, k, D) ==
    IF k > Len(window) \/ D[<<window[k].i + 1, window[k].lo + 1>>].set THEN D
    ELSE DtwFill(x, y, window, k + 1,
                 DtwRow(x, y, window[k].i + 1, window[k].lo + 1,
                        window[k].hi + 1, D))

\* while not (i == j == 0): path.append((i-1, j-1)); i, j = D[i, j][1:3]
RECURSIVE DtwPath(_, _, _, _)
DtwPath(D, i, j, path) ==
    IF i = 0 /\ j = 0 THEN path
    ELSE DtwPath(D, D[<<i, j>>].pi, D[<<i, j>>].pj, <<<<i - 1, j - 1>>>> \o path)

\* window = [(i, j) for i in range(len_x) for j in range(len_y)]:
\* a window is held row by row, the cells lo..hi of row i
FullWindow(len_x, len_y) ==
    IF len_y = 0 THEN << >>
    ELSE [k \in 1..len_x |-> [i |-> k - 1, lo |-> 0, hi |-> len_y - 1]]

\* __dtw: the cost table, then the path read backwards from the last cell.
\* With one sequence empty the walk reads D[i, j][1] of a cell that was
\* never set, the one-element default (inf,): IndexError.  With both empty
\* the walk does not start and the distance is D[0, 0][0] = 0.
Dtw(x, y, window) ==
    LET unset == [set |-> FALSE, fin |-> FALSE, cost |-> 0, pi |-> 0, pj |-> 0]
        D0 == [c \in (0..Len(x)) \X (0..Len(y)) |->
                 IF c = <<0, 0>> THEN [unset EXCEPT !.set = TRUE, !.fin = TRUE]
                 ELSE unset]
        D == DtwFill(x, y, window, 1, D0)
        last == <<Len(x), Len(y)>>
    IN  IF ~D[last].set
        THEN [raised |-> "IndexError", distance |-> 0, path |-> << >>]
        ELSE [raised |-> "", distance |-> D[last].cost,
              path |-> DtwPath(D, Len(x), Len(y), << >>)]

\* __reduce_by_half: the means of the pairs, a last odd element dropped
\* (the sequences are scaled beforehand so that every mean is whole)
ReduceByHalf(x) == [i \in 1..(Len(x) \div 2) |-> (x[2 * i - 1] + x[2 * i]) \div 2]

\* the cells of one row of the window, from the first cell at or after
\* start_j to the cell before the first gap
RowRun(window_, i, start_j, len_y) ==
    LET inrow == { j \in start_j..(len_y - 1) : <<i, j>> \in window_ }
        first == CHOOSE j \in inrow : \A k \in inrow : j <= k
        last == CHOOSE j \in inrow :
                    /\ \A k \in first..j : k \in inrow
                    /\ (j + 1) \notin inrow
    IN  [i |-> i, lo |-> first, hi |-> last]

\* the row scan of __expand_window (the low-resolution path visits every
\* row, so every row of the window has a cell)
RECURSIVE ExpandRows(_, _, _, _, _, _)
ExpandRows(window_, len_x, len_y, i, start_j, window) ==
    IF i >= len_x THEN window
    ELSE LET run == RowRun(window_, i, start_j, len_y)
         IN  ExpandRows(window_, len_x, len_y, i + 1, run.lo, Append(window, run))

\* __expand_window: the path widened by the radius, each cell projected to
\* the four cells it covers at the finer resolution
ExpandWindow(path, len_x, len_y, radius) ==
    LET path_ == { <<path[k][1] + a, path[k][2] + b>> :
                     k \in 1..Len(path), a \in (-radius)..radius,
                     b \in (-radius)..radius }
        window_ == { <<2 * c[1] + a, 2 * c[2] + b>> :
                       c \in path_, a \in {0, 1}, b \in {0, 1} }
    IN  ExpandRows(window_, len_x, len_y, 0, 0, << >>)

\* __fastdtw: plain dtw below radius + 2 elements, else the window around
\* the path found at half the resolution
RECURSIVE FastDtw(_, _)
FastDtw(x, y) ==
    IF Len(x) < FASTDTW_RADIUS + 2 \/ Len(y) < FASTDTW_RADIUS + 2
    THEN Dtw(x, y, FullWindow(Len(x), Len(y)))
    ELSE LET low == FastDtw(ReduceByHalf(x), ReduceByHalf(y))
         IN  Dtw(x, y, ExpandWindow(low.path, Len(x), Len(y), FASTDTW_RADIUS))

\* how often __fastdtw halves sequences of these lengths, as a power of 2
RECURSIVE HalvingScale(_, _)
HalvingScale(len_x, len_y) ==
    IF len_x < FASTDTW_RADIUS + 2 \/ len_y < FASTDTW_RADIUS + 2 THEN 1
    ELSE 2 * HalvingScale(len_x \div 2, len_y \div 2)

RECURSIVE Gcd(_, _)
Gcd(a, b) == IF b = 0 THEN a ELSE Gcd(b, a % b)

\* the rational num/den in lowest terms, den > 0
Rat(num, den) ==
    LET g == Gcd(Abs(num), den)
    IN  [num |-> num \div g, den |-> den \div g]

RatLess(p, q) == p.num * q.den < q.num * p.den

\* compute_dtw_distance(seq1, seq2) of two contours given by their
\* numerators and denominators: the distance as a rational, or the
\* exception fastdtw raises
compute_dtw_distance(seq1, den1, seq2, den2) ==
    LET scale == HalvingScale(Len(seq1), Len(seq2))
        x == [i \in 1..Len(seq1) |-> seq1[i] * den2 * scale]
        y == [j \in 1..Len(seq2) |-> seq2[j] * den1 * scale]
        r == FastDtw(x, y)
    IN  IF r.raised # "" THEN [raised |-> r.raised, distance |-> Rat(0, 1)]
        ELSE [raised |-> "", distance |-> Rat(r.distance, den1 * den2 * scale)]

(***************************************************************************)
(* identify_melody (dsp_engine.py) on a database that is already loaded.   *)
(*                                                                         *)
(* The index is built as load_database builds it, with windows of          *)
(* IndexWindowTicks overlapping by IndexOverlapTicks: the 15 s and 5 s of  *)
(* the program scaled down, so that a song of a few frames has several     *)
(* windows.  A distance, a confidence and a time are exact rationals;      *)
(* round(v, 2) gives a whole number of hundredths.                         *)
(***************************************************************************)
RatMin(p, q) == IF RatLess(q, p) THEN q ELSE p
RatMax(p, q) == IF RatLess(p, q) THEN q ELSE p

\* the whole number nearest to num/den, a tie going to the even one
RoundHalfEven(num, den) ==
    LET q == num \div den
        r == num % den
    IN  IF 2 * r < den THEN q
        ELSE IF 2 * r > den THEN q + 1
        ELSE IF q % 2 = 0 THEN q ELSE q + 1

\* round(v, 2), in hundredths
Round2(v) == RoundHalfEven(100 * v.num, v.den)

\* Faulty variant: the confidence is not clamped from below
ConfidenceUnclamped(distance) ==
    RatMin(Rat(100, 1), Rat(100 * 50 * distance.den - distance.num, 50 * distance.den))

\* confidence = max(0.0, min(100.0, 100 - (distance / 50)))
Confidence(distance) ==
    RatMax(Rat(0, 1),
           RatMin(Rat(100, 1),
                  Rat(100 * 50 * distance.den - distance.num, 50 * distance.den)))

\* the entry load_database stores for a pitch track (windows scaled down)
IndexEntry(song_title, f0) ==
    LET normalized == normalize_pitch_contour(f0).value
    IN  [ key |-> song_title,
          val |-> [ full_contour |-> normalized,
                    windows |-> CswRun(CswEnter(normalized, SAMPLE_RATE,
                                                IndexWindowTicks,
                                                IndexOverlapTicks)).windows,
                    sample_rate |-> SAMPLE_RATE ] ]

\* the songs of an index: alternating octaves (under two titles), a long
\* melody with two windows, a flat melody, a melody of wide leaps
IndexSongs ==
    { IndexEntry("Alt", <<440, 880, 440, 880, 440, 880, 440, 880, 440, 880>>),
      IndexEntry("Long", <<440, 440, 880, 880, 440, 440, 220, 220, 440, 440,
                           440, 880, 440, 220, 440, 880, 440, 220, 440, 440>>),
      IndexEntry("Alt Too", <<440, 880, 440, 880, 440, 880, 440, 880, 440, 880>>),
      IndexEntry("Flat", <<220, 220, 220, 220, 220, 220, 220, 220, 220, 220, 220>>),
      IndexEntry("Leaps", <<220, 220, 880, 220, 880, 880, 220, 220, 880, 440>>) }

\* a loaded songs_cache: songs with distinct titles, in any order
Indexes ==
    { d \in UNION { [1..n -> IndexSongs] : n \in 0..MaxIndexSongs } :
        \A i, j \in 1..Len(d) : i # j => d[i].key # d[j].key }

\* the hums: the melody of "Alt", the second window of "Long", a melody of
\* its own, too few voiced frames, a file that cannot be read
QueryHums ==
    { [ readable |-> TRUE,
        f0 |-> <<440, 880, 440, 880, 440, 880, 440, 880, 440, 880>> ],
      [ readable |-> TRUE,
        f0 |-> <<880, NaN, 880, 880, 1760, 880, 440, 880, 1760, 880, 440, 880, 880>> ],
      [ readable |-> TRUE,
        f0 |-> <<220, 440, 220, 220, 440, 880, 440, 220, 220, 440, 220>> ],
      [ readable |-> TRUE, f0 |-> <<440, NaN, 880, 440, NaN, 440>> ],
      [ readable |-> FALSE, f0 |-> << >> ] }

\* the (song, window) positions of an index
PairsOf(database) ==
    { p \in (1..Len(database)) \X (1..MaxContourLen) :
        p[2] <= Len(database[p[1]].val.windows) }

WindowAt(database, p) == database[p[1]].val.windows[p[2]]

\* compute_dtw_distance(hum_normalized, window_contour) for the window at
\* position p of the index
PairDistance(database, hum_normalized, p) ==
    compute_dtw_distance(hum_normalized, Len(hum_normalized),
                         WindowAt(database, p)[1],
                         Len(database[p[1]].val.full_contour))

\* best_distance = float('inf')
Infinity == [inf |-> TRUE]

\* Faulty variant: a window as good as the best one replaces it
BelowOrEqualBest(distance, best_distance) ==
    best_distance = Infinity \/ ~RatLess(best_distance, distance)

\* distance < best_distance
BelowBest(distance, best_distance) ==
    best_distance = Infinity \/ RatLess(distance, best_distance)

\* MatchResult(song_title=..., confidence_score=round(confidence, 2), ...)
MatchResult(song_title, distance, window, hum_normalized) ==
    [ song_title       |-> song_title,
      confidence_score |-> Round2(Confidence(distance)),
      match_start_time |-> Round2(window[2]),
      dtw_distance     |-> Round2(distance),
      hum_pitch        |-> hum_normalized,
      song_pitch       |-> window[1] ]

\* identify_melody is called: a loaded database, a hum, and the positions
\* at which the distance computation fails with an exception
InitMatch ==
    /\ \E database \in Indexes, hum \in QueryHums :
       \E fails \in { {} } \cup { {p} : p \in PairsOf(database) } :
           im = [ pc |-> "start", database |-> database, hum |-> hum,
                  fails |-> fails, hum_normalized |-> << >>,
                  s |-> 0, w |-> 0,
                  best_distance |-> Infinity, best_match |-> None,
                  ret |-> None, exc |-> "" ]
    /\ csw = CswIdle
    /\ DbUnused
    /\ CsdUnused
    /\ RqUnused
    /\ PnUnused
    /\ FnUnused
    /\ AdUnused

\* num_songs = database.load_database(): the database is loaded, the count
\* is len(songs_cache); with no song the answer is None
ImNoSongs ==
    /\ im.pc = "start"
    /\ Len(im.database) = 0
    /\ im' = [im EXCEPT !.pc = "returned", !.ret = None]
    /\ UNCHANGED <<winvars, dbvars, csdvars, rqvars, pnvars, fnvars, advars>>

\* the hum: load_audio, extract_pitch_contour, normalize_pitch_contour; an
\* exception is logged and raised again
ImProcessHum ==
    /\ im.pc = "start"
    /\ Len(im.database) # 0
    /\ LET normalized == normalize_pitch_contour(im.hum.f0)
       IN  im' = IF ~im.hum.readable
                 THEN [im EXCEPT !.pc = "raised", !.exc = "Exception"]
                 ELSE IF normalized.raised # ""
                 THEN [im EXCEPT !.pc = "raised", !.exc = normalized.raised]
                 ELSE [im EXCEPT !.pc = "loop",
                                 !.hum_normalized = normalized.value,
                                 !.s = 1, !.w = 1]
    /\ UNCHANGED <<winvars, dbvars, csdvars, rqvars, pnvars, fnvars, advars>>

\* one window of one song: the distance, and the new best match if the
\* distance is below the best one; an exception of compute_dtw_distance is
\* caught nowhere and ends the call
ImCompare ==
    /\ im.pc = "loop"
    /\ <<im.s, im.w>> \in PairsOf(im.database)
    /\ LET p == <<im.s, im.w>>
           d == PairDistance(im.database, im.hum_normalized, p)
       IN  im' = IF p \in im.fails \/ d.raised # ""
                 THEN [im EXCEPT !.pc = "raised",
                                 !.exc = IF d.raised # "" THEN d.raised
                                         ELSE "Exception"]
                 ELSE IF BelowBest(d.distance, im.best_distance)
                 THEN [im EXCEPT !.best_distance = d.distance,
                                 !.best_match =
                                     MatchResult(im.database[im.s].key, d.distance,
                                                 WindowAt(im.database, p),
                                                 im.hum_normalized),
                                 !.w = @ + 1]
                 ELSE [im EXCEPT !.w = @ + 1]
    /\ UNCHANGED <<winvars, dbvars, csdvars, rqvars, pnvars, fnvars, advars>>

\* the windows of a song are done: the next item of songs_cache
ImNextSong ==
    /\ im.pc = "loop"
    /\ im.s <= Len(im.database)
    /\ im.w > Len(im.database[im.s].val.windows)
    /\ im' = [im EXCEPT !.s = @ + 1, !.w = 1]
    /\ UNCHANGED <<winvars, dbvars, csdvars, rqvars, pnvars, fnvars, advars>>

\* return best_match
ImDone ==
    /\ im.pc = "loop"
    /\ im.s > Len(im.database)
    /\ im' = [im EXCEPT !.pc = "returned", !.ret = im.best_match]
    /\ UNCHANGED <<winvars, dbvars, csdvars, rqvars, pnvars, fnvars, advars>>

NextMatch == ImNoSongs \/ ImProcessHum \/ ImCompare \/ ImNextSong \/ ImDone

SpecMatch == InitMatch /\ [][NextMatch]_vars

(***************************************************************************)
(* The score of identify_melody on its own: lines 514 and 518 applied to   *)
(* two distances, from 0 to beyond the distance at which the confidence    *)
(* reaches 0.                                                              *)
(***************************************************************************)
ScoreDistances ==
    { Rat(k, 4) : k \in 0..MaxQuarters }
        \cup { Rat(250 * k, 1) : k \in 0..MaxSteps }
        \cup { Rat(4 * 100 * 50 + k - MaxQuarters, 4) : k \in 0..(2 * MaxQuarters) }

InitScore ==
    /\ \E distance \in ScoreDistances, other \in ScoreDistances :
           im = [pc |-> "score", distance |-> distance, other |-> other]
    /\ csw = CswIdle
    /\ DbUnused
    /\ CsdUnused
    /\ RqUnused
    /\ PnUnused
    /\ FnUnused
    /\ AdUnused

\* confidence_score=round(confidence, 2), for either distance
ImScore ==
    /\ im.pc = "score"
    /\ im' = [ pc |-> "scored", distance |-> im.distance, other |-> im.other,
               confidence_score |-> Round2(Confidence(im.distance)),
               other_score |-> Round2(Confidence(im.other)) ]
    /\ UNCHANGED <<winvars, dbvars, csdvars, rqvars, pnvars, fnvars, advars>>

NextScore == ImScore

SpecScore == InitScore /\ [][NextScore]_vars

\* C13: a confidence_score lies in [0, 100] (0..10000 hundredths), the
\* greater of two distances never has the greater score, and distance 0
\* scores 100.
C13_ConfidenceBoundedMonotone ==
    im.pc = "scored" =>
        /\ im.confidence_score \in 0..(100 * 100)
        /\ ~RatLess(im.other, im.distance) => im.confidence_score >= im.other_score
        /\ im.distance = Rat(0, 1) => im.confidence_score = 100 * 100

\* distance 0 scored 100 next to a distance that scored 0 and one between
C13_Witness ==
    /\ im.pc = "scored"
    /\ im.distance = Rat(0, 1)
    /\ im.confidence_score = 100 * 100
    /\ RatLess(Rat(100 * 50, 1), im.other)
    /\ im.other_score = 0

(***************************************************************************)
(* Properties of identify_melody.                                          *)
(***************************************************************************)
\* the query itself cannot be processed
HumFails(hum) == ~hum.readable \/ normalize_pitch_contour(hum.f0).raised # ""

\* the distance of the hum of this call to the window at position p
DistanceAt(p) == PairDistance(im.database, im.hum_normalized, p).distance

\* position p is scanned before position q
ScanBefore(p, q) == p[1] < q[1] \/ (p[1] = q[1] /\ p[2] < q[2])

\* the first position in scan order with the least distance among pairs
FirstBest(pairs) ==
    CHOOSE p \in pairs :
        \A q \in pairs \ {p} :
            \/ RatLess(DistanceAt(p), DistanceAt(q))
            \/ DistanceAt(p) = DistanceAt(q) /\ ScanBefore(p, q)

\* C11: a failing distance computation costs only its window: the call
\* raises only when the query itself cannot be processed, and with a song
\* in the index and a valid query it returns the best match among the
\* windows whose distance was computed.
C11_WindowFailureIsContained ==
    /\ im.pc = "raised" => HumFails(im.hum)
    /\ (im.pc \in {"returned", "raised"} /\ Len(im.database) > 0
            /\ ~HumFails(im.hum) /\ PairsOf(im.database) \ im.fails # {})
        => /\ im.pc = "returned"
           /\ im.ret # None
           /\ im.ret.song_pitch =
                  WindowAt(im.database,
                           FirstBest(PairsOf(im.database) \ im.fails))[1]

\* the call is over and has returned a MatchResult
Matched == im.pc = "returned" /\ im.ret # None

\* C16 (as stated): the MatchResult carries the least distance over all
\* (song, window) pairs and the title, start time and contour of the first
\* window in scan order that has it.
C16_ResultIsFirstMinimum ==
    Matched =>
        LET p == FirstBest(PairsOf(im.database))
            window == WindowAt(im.database, p)
        IN  /\ im.ret.song_title = im.database[p[1]].key
            /\ im.ret.song_pitch = window[1]
            /\ Rat(im.ret.dtw_distance, 100) = DistanceAt(p)
            /\ Rat(im.ret.match_start_time, 100) = Rat(window[2].num, window[2].den)

\* C16 (amended): the MatchResult carries the title and the contour of the
\* first window in scan order with the least distance, and that distance
\* and that window's start time each rounded to two decimals.
C16_ResultIsFirstMinimumRounded ==
    Matched =>
        LET p == FirstBest(PairsOf(im.database))
            window == WindowAt(im.database, p)
        IN  /\ im.ret.song_title = im.database[p[1]].key
            /\ im.ret.song_pitch = window[1]
            /\ im.ret.dtw_distance = Round2(DistanceAt(p))
            /\ im.ret.match_start_time = Round2(window[2])

\* a match whose least distance is shared by two windows, and one whose
\* best window does not start at a whole number of hundredths of a second
C16_Witness ==
    /\ Matched
    /\ \E p, q \in PairsOf(im.database) :
          /\ p # q
          /\ DistanceAt(p) = DistanceAt(q)
          /\ p = FirstBest(PairsOf(im.database))
    /\ Len(im.database) = 2

\* the hum of this call has the very values of the window at position p
SameContour(p) ==
    LET window == WindowAt(im.database, p)[1]
        n == Len(im.database[p[1]].val.full_contour)
        m == Len(im.hum_normalized)
    IN  /\ Len(window) = m
        /\ \A i \in 1..m : im.hum_normalized[i] * n = window[i] * m

\* C17: a query identical to an indexed window is a perfect match:
\* distance 0, confidence 100, and the start of a window at distance 0.
C17_IdenticalWindowIsPerfectMatch ==
    (Matched /\ \E p \in PairsOf(im.database) : SameContour(p))
    => /\ im.ret.dtw_distance = 0
       /\ im.ret.confidence_score = 100 * 100
       /\ \E q \in PairsOf(im.database) :
             /\ DistanceAt(q) = Rat(0, 1)
             /\ im.ret.match_start_time = Round2(WindowAt(im.database, q)[2])

(***************************************************************************)
(* The pitch normalizers: normalize_pitch_contour (dsp_engine.py) and      *)
(* extract_pitch (dsp_utils.py), each applied to a pitch track and to the  *)
(* same track transposed by whole octaves.                                 *)
(***************************************************************************)
\* extract_pitch: if len(f0_clean) < 15: return None
EXTRACT_MIN_FRAMES == 15

RECURSIVE Pow2(_)
Pow2(k) == IF k = 0 THEN 1 ELSE 2 * Pow2(k - 1)

\* the ascending order of a sequence of numbers
Sorted(s) == SortSeq(s, LAMBDA a, b : a < b)

\* scipy.signal.medfilt(f0_clean, kernel_size): the median of the
\* kernel_size values around each element, zeros beyond the ends
MedFilt(s, kernel_size) ==
    LET half == kernel_size \div 2
        At(k) == IF k \in 1..Len(s) THEN s[k] ELSE 0
    IN  [i \in 1..Len(s) |->
           Sorted([k \in 1..kernel_size |-> At(i - half + k - 1)])[half + 1]]

\* np.percentile(midi, q) times 100, by linear interpolation
\* between the two nearest ranks: the rank is (n - 1) * q / 100
Percentile100(midi, q) ==
    LET s == Sorted(midi)
        rank == (Len(midi) - 1) * q
        lo == rank \div 100
        frac == rank % 100
    IN  IF frac = 0 THEN 100 * s[lo + 1]
        ELSE 100 * s[lo + 1] + frac * (s[lo + 2] - s[lo + 1])

\* np.clip(v, lo, hi)
Clip(v, lo, hi) == IF v < lo THEN lo ELSE IF v > hi THEN hi ELSE v

\* midi - np.mean(midi): the numerators over the denominator len(midi)
MeanCentered(midi) ==
    [i \in 1..Len(midi) |-> Len(midi) * midi[i] - SeqSum(midi)]

\* extract_pitch from the pitch track pyin gives for the file: None, or
\* the contour as numerators over the denominator 100 * len
extract_pitch(audio, f0) ==
    IF audio # "ok" THEN None
    ELSE LET f0_clean == SelectSeq(f0, IsVoiced)
             n == Len(f0_clean)
             kernel_size == Min(5, IF n % 2 = 1 THEN n ELSE n - 1)
             filtered == IF kernel_size >= 3 THEN MedFilt(f0_clean, kernel_size)
                         ELSE f0_clean
             midi == [i \in 1..n |-> HzToMidi(filtered[i])]
             p5 == Percentile100(midi, 5)
             p95 == Percentile100(midi, 95)
             clipped == [i \in 1..n |-> Clip(100 * midi[i], p5, p95)]
         IN  IF n < EXTRACT_MIN_FRAMES THEN None
             ELSE [none |-> FALSE, value |-> MeanCentered(clipped)]

\* the pitch tracks: n frames over four octaves, every (gap+1)-th unvoiced
TrackOf(n, shape, gap) ==
    [i \in 1..n |-> IF gap > 0 /\ i % (gap + 1) = 0 THEN NaN
                    ELSE 110 * Pow2((i * shape + i \div 3) % 4)]

Tracks ==
    { TrackOf(n, shape, gap) :
        n \in 0..MaxTrackLen, shape \in 0..MaxShape, gap \in 0..MaxGap }

\* the track an octave higher, octaves times
Transposed(f0, octaves) ==
    [i \in 1..Len(f0) |-> IF f0[i] = NaN THEN NaN ELSE f0[i] * Pow2(octaves)]

InitNorm ==
    /\ \E f0 \in Tracks, octaves \in 0..MaxOctaves,
          audio \in {"ok", "quiet", "unreadable"} :
           pn = [pc |-> "call", f0 |-> f0, octaves |-> octaves, audio |-> audio]
    /\ csw = CswIdle
    /\ DbUnused
    /\ CsdUnused
    /\ ImUnused
    /\ RqUnused
    /\ FnUnused
    /\ AdUnused

\* both normalizers, on the track and on the transposed track
NormalizeCall ==
    /\ pn.pc = "call"
    /\ pn' = [ pc |-> "done", f0 |-> pn.f0, octaves |-> pn.octaves,
               audio |-> pn.audio,
               normalized |-> normalize_pitch_contour(pn.f0),
               normalized_up |->
                   normalize_pitch_contour(Transposed(pn.f0, pn.octaves)),
               extracted |-> extract_pitch(pn.audio, pn.f0),
               extracted_up |->
                   extract_pitch(pn.audio, Transposed(pn.f0, pn.octaves)) ]
    /\ UNCHANGED <<winvars, dbvars, csdvars, imvars, rqvars, fnvars, advars>>

NextNorm == NormalizeCall

SpecNorm == InitNorm /\ [][NextNorm]_vars

(***************************************************************************)
(* Properties of the pitch normalizers.                                    *)
(***************************************************************************)
\* the voiced observations of a track, in time order
VoicedOf(f0) == SelectSeq(f0, LAMBDA x : x # NaN)

\* C19: normalize_pitch_contour raises ValueError exactly when fewer than
\* MIN_VALID_FRAMES observations have a frequency; otherwise the contour
\* has one value per voiced observation, in time order (the difference of
\* two values is the difference of the two notes).
C19_InsufficientSignalIff ==
    pn.pc = "done" =>
        LET voiced == VoicedOf(pn.f0)
            n == Len(voiced)
            out == pn.normalized
        IN  /\ (out.raised = "ValueError") <=> (n < MIN_VALID_FRAMES)
            /\ out.raised \in {"", "ValueError"}
            /\ out.raised = "" =>
                  /\ Len(out.value) = n
                  /\ \A i, j \in 1..n :
                        out.value[i] - out.value[j] =
                            n * (12 * Log2Ratio(voiced[i], voiced[j]))

\* tracks on both sides of the threshold have been normalized
C19_Witness ==
    /\ pn.pc = "done"
    /\ pn.normalized.raised = ""
    /\ Len(pn.normalized.value) = MIN_VALID_FRAMES
    /\ Len(pn.f0) > MIN_VALID_FRAMES
    /\ \E i \in 1..MIN_VALID_FRAMES : pn.normalized.value[i] # 0

\* C20: with enough voiced frames the contour of either normalizer sums
\* to 0, and the transposed track gives the same contour.
C20_MeanZeroKeyInvariant ==
    pn.pc = "done" =>
        /\ pn.normalized.raised = "" =>
              /\ SeqSum(pn.normalized.value) = 0
              /\ pn.normalized_up = pn.normalized
        /\ pn.extracted # None =>
              /\ SeqSum(pn.extracted.value) = 0
              /\ pn.extracted_up = pn.extracted

\* a melody of several notes was transposed and normalized by both
C20_Witness ==
    /\ pn.pc = "done"
    /\ pn.octaves > 0
    /\ pn.normalized.raised = ""
    /\ pn.extracted # None
    /\ \E i \in 1..Len(pn.normalized.value) : pn.normalized.value[i] # 0
    /\ \E i \in 1..Len(pn.extracted.value) : pn.extracted.value[i] # 0
    /\ Len(pn.f0) > Len(pn.extracted.value)

(***************************************************************************)
(* calculate_similarity (services/dtw.py), find_best_matches               *)
(* (services/matcher.py) and the /upload request (routes/humming.py).      *)
(*                                                                         *)
(* A similarity is an exact rational; round(similarity, 1) gives a whole   *)
(* number of tenths.  The relative-pitch sequences of the model have       *)
(* variances whose product is a perfect square, so that the Pearson        *)
(* correlation is rational.  A song identifier is held as its rank in      *)
(* ascending order of the identifiers.                                     *)
(***************************************************************************)
\* find_best_matches(user_features, database, top_n=5)
TOP_N == 5

Max(a, b) == IF a >= b THEN a ELSE b

\* sum of x[i] * y[i] over the first n elements
RECURSIVE DotProduct(_, _, _)
DotProduct(x, y, n) ==
    IF n = 0 THEN 0 ELSE x[n] * y[n] + DotProduct(x, y, n - 1)

\* n * n times the variance of the first n elements: np.std(...) > 0
\* exactly when it is positive
Variance(x, n) == n * DotProduct(x, x, n) - SeqSum(SubSeq(x, 1, n)) * SeqSum(SubSeq(x, 1, n))

\* n * n times the covariance of the first n elements
Covariance(x, y, n) ==
    n * DotProduct(x, y, n) - SeqSum(SubSeq(x, 1, n)) * SeqSum(SubSeq(y, 1, n))

\* the square root of a * b, a whole number for the sequences of the model
SqrtOfProduct(a, b) == CHOOSE s \in Min(a, b)..Max(a, b) : s * s = a * b

\* pitch_similarity = 0.5 when one of the segments has no variance
ZeroVarianceSimilarity == Rat(1, 2)

\* pitch_similarity: max(0, np.corrcoef(song_segment, user_segment)[0, 1])
\* of the sequences cut to their common length
PitchSimilarity(song_pitches, user_pitches) ==
    LET min_len == Min(Len(song_pitches), Len(user_pitches))
        vs == Variance(song_pitches, min_len)
        vu == Variance(user_pitches, min_len)
        cov == Covariance(song_pitches, user_pitches, min_len)
    IN  IF vs > 0 /\ vu > 0
        THEN IF cov <= 0 THEN Rat(0, 1) ELSE Rat(cov, SqrtOfProduct(vs, vu))
        ELSE ZeroVarianceSimilarity

\* Faulty variant: only two empty sequences count as no pitches
NoPitchesAtAll(song_pitches, user_pitches) ==
    song_pitches = << >> /\ user_pitches = << >>

\* if not song_pitches or not user_pitches
NoPitches(song_pitches, user_pitches) ==
    song_pitches = << >> \/ user_pitches = << >>

\* tempo_similarity = max(0, 1.0 - tempo_diff / max(song_tempo, user_tempo)),
\* for tempos that are not both 0
TempoSimilarity(song_tempo, user_tempo) ==
    RatMax(Rat(0, 1),
           Rat(Max(song_tempo, user_tempo) - Abs(song_tempo - user_tempo),
               Max(song_tempo, user_tempo)))

\* the locals of calculate_similarity when it returns: 0.0 without pitches
\* on one side, 0.0 when the computation raises (both tempos 0:
\* ZeroDivisionError, caught), else
\* max(0, min(100, (0.6 * pitch_similarity + 0.4 * tempo_similarity) * 100))
SimilarityFrame(song_features, user_features) ==
    LET song_pitches == song_features.relative_pitches
        user_pitches == user_features.relative_pitches
        song_tempo == song_features.tempo
        user_tempo == user_features.tempo
        tempo_similarity == TempoSimilarity(song_tempo, user_tempo)
        pitch_similarity == PitchSimilarity(song_pitches, user_pitches)
        similarity ==
            Rat(60 * pitch_similarity.num * tempo_similarity.den
                    + 40 * tempo_similarity.num * pitch_similarity.den,
                pitch_similarity.den * tempo_similarity.den)
    IN  IF NoPitches(song_pitches, user_pitches)
        THEN [caught |-> "", tempo_similarity |-> None,
              pitch_similarity |-> None, ret |-> Rat(0, 1)]
        ELSE IF Max(song_tempo, user_tempo) = 0
        THEN [caught |-> "ZeroDivisionError", tempo_similarity |-> None,
              pitch_similarity |-> None, ret |-> Rat(0, 1)]
        ELSE [caught |-> "", tempo_similarity |-> tempo_similarity,
              pitch_similarity |-> pitch_similarity,
              ret |-> RatMax(Rat(0, 1), RatMin(Rat(100, 1), similarity))]

\* calculate_similarity(song_features, user_features)
calculate_similarity(song_features, user_features) ==
    SimilarityFrame(song_features, user_features).ret

\* round(similarity, 1), in tenths
Round1(v) == RoundHalfEven(10 * v.num, v.den)

\* the entry find_best_matches makes for a song
MatchOf(song, user_features) ==
    [ id          |-> song.id,
      name        |-> song.name,
      path        |-> song.path,
      similarity  |-> Round1(calculate_similarity(song, user_features)),
      tempo       |-> song.tempo,
      pitch_count |-> song.pitch_count ]

\* Faulty variant: the entry stays where the database has it
InsertAtEnd(sorted, m) == Append(sorted, m)

\* where matches.sort(key=similarity, reverse=True) puts an entry among
\* those before it: behind every entry that is at least as similar (the
\* sort is stable, equal entries keep the order of the database)
InsertMatch(sorted, m) ==
    LET k == Cardinality({ i \in 1..Len(sorted) :
                             sorted[i].similarity >= m.similarity })
    IN  SubSeq(sorted, 1, k) \o <<m>> \o SubSeq(sorted, k + 1, Len(sorted))

\* the loop over the database and the sort
RECURSIVE SortedMatches(_, _, _)
SortedMatches(database, user_features, n) ==
    IF n = 0 THEN << >>
    ELSE InsertMatch(SortedMatches(database, user_features, n - 1),
                     MatchOf(database[n], user_features))

\* find_best_matches: matches[:top_n], for top_n >= 0
find_best_matches(user_features, database, top_n) ==
    SubSeq(SortedMatches(database, user_features, Len(database)),
           1, Min(top_n, Len(database)))

\* a song of the JSON database
Song(id, relative_pitches, tempo) ==
    [ id |-> id, name |-> id, path |-> id, tempo |-> tempo,
      relative_pitches |-> relative_pitches,
      pitch_count |-> Len(relative_pitches) ]

SongPool ==
    << Song(1, <<1, -1, 2>>, 120),
       Song(2, <<1, -1, 2, 3>>, 120),
       Song(3, <<-1, 1, -2>>, 120),
       Song(4, <<2, 2, 2>>, 90),
       Song(5, <<2, 1, -1>>, 100),
       Song(6, << >>, 120),
       Song(7, <<-1, 1, 2>>, 0) >>

\* what load_song_database returns: few songs in any order, or all the
\* songs in ascending or in descending order of their identifiers
Databases ==
    { d \in UNION { [1..n -> { SongPool[i] : i \in 1..Len(SongPool) }] :
                      n \in 0..MaxDbSongs } :
        \A i, j \in 1..Len(d) : i # j => d[i].id # d[j].id }
    \cup { SongPool, [i \in 1..Len(SongPool) |-> SongPool[Len(SongPool) + 1 - i]] }

\* what extract_features returns for the query
QueryFeatures ==
    { [tempo |-> 120, relative_pitches |-> <<1, -1, 2>>, pitch_count |-> 3],
      [tempo |-> 100, relative_pitches |-> <<2, 2, 2>>, pitch_count |-> 3],
      [tempo |-> 0, relative_pitches |-> <<1, -1, 2>>, pitch_count |-> 3],
      [tempo |-> 120, relative_pitches |-> << >>, pitch_count |-> 0] }

\* SearchResponse(success=..., features=..., matches=..., error=...)
SearchResponse(success, features, matches, error) ==
    [success |-> success, features |-> features, matches |-> matches,
     error |-> error]

\* an exception, and str(e): the message it was raised with
Exception(type, message) == [type |-> type, message |-> message]

Str(e) == e.message

\* what saving the upload raises: audio.filename is None, or it is empty
\* and the path is the uploads directory itself
SaveExceptions ==
    { Exception("TypeError",
                "unsupported operand type(s) for /: 'PosixPath' and 'NoneType'"),
      Exception("IsADirectoryError", "[Errno 21] Is a directory: 'uploads'") }

\* what find_best_matches raises on a database with an entry that is not
\* a JSON object: song.get
MalformedSongException ==
    Exception("AttributeError", "'str' object has no attribute 'get'")

\* a call of find_best_matches, or an /upload request: whether the upload
\* can be saved and what is raised if not, whether its audio loads, the
\* features of the audio
InitRank ==
    /\ \/ \E database \in Databases, features \in QueryFeatures,
             top_n \in 0..MaxTopN :
              rq = [ pc |-> "start", op |-> "find_best_matches",
                     database |-> database, features |-> features,
                     top_n |-> top_n, saved |-> TRUE, audio_loads |-> TRUE ]
       \/ \E database \in Databases, features \in QueryFeatures \cup {None},
             exc \in SaveExceptions \cup {None}, audio_loads \in BOOLEAN :
              rq = [ pc |-> "start", op |-> "upload_audio",
                     database |-> database, features |-> features,
                     top_n |-> TOP_N, saved |-> (exc = None), exc |-> exc,
                     audio_loads |-> audio_loads, malformed |-> FALSE ]
    /\ csw = CswIdle
    /\ DbUnused
    /\ CsdUnused
    /\ ImUnused
    /\ PnUnused
    /\ FnUnused
    /\ AdUnused

\* find_best_matches(user_features, database, top_n)
FindBestMatches ==
    /\ rq.pc = "start"
    /\ rq.op = "find_best_matches"
    /\ rq' = [ pc |-> "returned", op |-> rq.op, database |-> rq.database,
               features |-> rq.features, top_n |-> rq.top_n,
               ret |-> find_best_matches(rq.features, rq.database, rq.top_n) ]
    /\ UNCHANGED <<winvars, dbvars, csdvars, imvars, pnvars, fnvars, advars>>

\* upload_audio: the response of the handler
UploadResponse(r) ==
    IF ~r.saved
    THEN SearchResponse(FALSE, None, << >>, Str(r.exc))
    ELSE IF ~r.audio_loads
    THEN SearchResponse(FALSE, None, << >>, "Could not load or analyze audio file.")
    ELSE IF r.features = None
    THEN SearchResponse(FALSE, None, << >>, "Could not extract features from audio.")
    ELSE IF r.database = << >>
    THEN SearchResponse(FALSE, None, << >>,
                        "No songs in database. Please add songs first.")
    ELSE IF r.malformed
    THEN SearchResponse(FALSE, None, << >>, Str(MalformedSongException))
    ELSE SearchResponse(TRUE, r.features,
                        find_best_matches(r.features, r.database, TOP_N), None)

UploadAudio ==
    /\ rq.pc = "start"
    /\ rq.op = "upload_audio"
    /\ rq' = [ pc |-> "responded", op |-> rq.op, database |-> rq.database,
               features |-> rq.features, saved |-> rq.saved,
               exc |-> rq.exc, audio_loads |-> rq.audio_loads,
               malformed |-> rq.malformed,
               response |-> UploadResponse(rq) ]
    /\ UNCHANGED <<winvars, dbvars, csdvars, imvars, pnvars, fnvars, advars>>

NextRank == FindBestMatches \/ UploadAudio

SpecRank == InitRank /\ [][NextRank]_vars

(***************************************************************************)
(* Properties of find_best_matches and of the /upload request.             *)
(***************************************************************************)
\* C12: with no song in the database find_best_matches returns the empty
\* list, and an /upload request whose audio loads and yields features is
\* answered without a failure: success, no match, no error.
C12_EmptyCorpusIsNoError ==
    /\ (rq.pc = "returned" /\ rq.database = << >>) => rq.ret = << >>
    /\ (rq.pc = "responded" /\ rq.database = << >> /\ rq.saved
            /\ rq.audio_loads /\ rq.features # None)
        => /\ rq.response.success
           /\ rq.response.matches = << >>
           /\ rq.response.error = None

\* the similarity find_best_matches reports for a song of this call
ReportedSimilarity(song) == Round1(calculate_similarity(song, rq.features))

\* C14: find_best_matches returns min(top_n, number of songs) entries, each
\* for a song of its own, in non-increasing order of similarity, and no
\* song left out is more similar than a returned one; an /upload request
\* returns them for top_n = 5.
C14_TopNSortedComplete ==
    /\ rq.pc = "returned" =>
          LET n == Len(rq.ret)
              ids == { rq.ret[i].id : i \in 1..n }
          IN  /\ n = Min(rq.top_n, Len(rq.database))
              /\ Cardinality(ids) = n
              /\ \A i \in 1..n :
                    \E k \in 1..Len(rq.database) :
                       /\ rq.database[k].id = rq.ret[i].id
                       /\ ReportedSimilarity(rq.database[k]) = rq.ret[i].similarity
              /\ \A i, j \in 1..n :
                    i < j => rq.ret[i].similarity >= rq.ret[j].similarity
              /\ \A k \in 1..Len(rq.database) :
                    rq.database[k].id \notin ids
                    => \A i \in 1..n :
                          ReportedSimilarity(rq.database[k]) <= rq.ret[i].similarity
    /\ (rq.pc = "responded" /\ rq.response.success) =>
          Len(rq.response.matches) = Min(TOP_N, Len(rq.database))

\* a call that left songs out, returned several, and not all as similar
C14_Witness ==
    /\ rq.pc = "returned"
    /\ rq.top_n > 1
    /\ Len(rq.database) > rq.top_n
    /\ rq.ret[1].similarity > rq.ret[Len(rq.ret)].similarity
    /\ rq.ret[1].id # rq.database[1].id

\* C15: songs of equal similarity are ranked in ascending order of their
\* identifiers.
C15_TiesByAscendingId ==
    rq.pc = "returned" =>
        \A i, j \in 1..Len(rq.ret) :
            (i < j /\ rq.ret[i].similarity = rq.ret[j].similarity)
            => rq.ret[i].id < rq.ret[j].id

(***************************************************************************)
(* Rebuilding the index of SongDatabase from the same corpus.              *)
(***************************************************************************)
\* the index one complete scan of a listing builds
RECURSIVE ScanListing(_, _, _)
ScanListing(listing, cache, i) ==
    IF i > Len(listing) THEN cache
    ELSE LET p == ProcessFile(listing[i])
         IN  ScanListing(listing,
                         IF p.outcome = "stored"
                         THEN DictSet(cache, p.song_title, p.entry) ELSE cache,
                         i + 1)

\* the songs of an index with their contours and windows
Contents(cache) ==
    { [ song_title   |-> cache[i].key,
        full_contour |-> cache[i].val.full_contour,
        windows      |-> cache[i].val.windows ] : i \in 1..Len(cache) }

\* C18: an index rebuilt from the same files, in whatever order the
\* directory lists them, has the same songs with the same contours and the
\* same windows as the loaded one.
C18_RebuildIsOrderIndependent ==
    loaded =>
        \A l \in Listings :
            { l[i] : i \in 1..Len(l) } = ListedFiles
            => Contents(ScanListing(l, << >>, 1)) = Contents(songs_cache)

(***************************************************************************)
(* The two distance functions called on their own:                         *)
(* dsp_engine.compute_dtw_distance, which returns the path cost, and       *)
(* dsp_utils.compute_dtw_distance, which returns the path cost divided by  *)
(* the path length plus one, and the path length.                          *)
(***************************************************************************)
\* dsp_utils.compute_dtw_distance(seq1, seq2) of two sequences of whole
\* numbers: (distance / (len(path) + 1), len(path)), or the exception
utils_compute_dtw_distance(seq1, seq2) ==
    LET scale == HalvingScale(Len(seq1), Len(seq2))
        x == [i \in 1..Len(seq1) |-> seq1[i] * scale]
        y == [j \in 1..Len(seq2) |-> seq2[j] * scale]
        r == FastDtw(x, y)
    IN  IF r.raised # ""
        THEN [raised |-> r.raised, normalized |-> Rat(0, 1), path_length |-> 0]
        ELSE [raised |-> "",
              normalized |-> Rat(r.distance, scale * (Len(r.path) + 1)),
              path_length |-> Len(r.path)]

\* the values of the sequences compared
SeqValues == {-1, 0, 2}

\* the sequences compared: any up to MaxSeqLen values, the empty one too
\* (normalize_to_intervals returns it for fewer than 2 pitches)
DistanceSeqs == UNION { [1..n -> SeqValues] : n \in 0..MaxSeqLen }

InitDist ==
    /\ \E seq1 \in DistanceSeqs, seq2 \in DistanceSeqs,
          op \in {"dsp_engine.compute_dtw_distance",
                  "dsp_utils.compute_dtw_distance"} :
           fn = [pc |-> "start", op |-> op, seq1 |-> seq1, seq2 |-> seq2]
    /\ csw = CswIdle
    /\ DbUnused
    /\ CsdUnused
    /\ ImUnused
    /\ RqUnused
    /\ PnUnused
    /\ AdUnused

\* dsp_engine.compute_dtw_distance(seq1, seq2)
EngineDistance ==
    /\ fn.pc = "start"
    /\ fn.op = "dsp_engine.compute_dtw_distance"
    /\ LET r == compute_dtw_distance(fn.seq1, 1, fn.seq2, 1)
       IN  fn' = [ pc |-> IF r.raised # "" THEN "raised" ELSE "returned",
                   op |-> fn.op, seq1 |-> fn.seq1, seq2 |-> fn.seq2,
                   exc |-> r.raised, score |-> r.distance ]
    /\ UNCHANGED <<winvars, dbvars, csdvars, imvars, rqvars, pnvars, advars>>

\* dsp_utils.compute_dtw_distance(seq1, seq2)
UtilsDistance ==
    /\ fn.pc = "start"
    /\ fn.op = "dsp_utils.compute_dtw_distance"
    /\ LET r == utils_compute_dtw_distance(fn.seq1, fn.seq2)
       IN  fn' = [ pc |-> IF r.raised # "" THEN "raised" ELSE "returned",
                   op |-> fn.op, seq1 |-> fn.seq1, seq2 |-> fn.seq2,
                   exc |-> r.raised, score |-> r.normalized,
                   path_length |-> r.path_length ]
    /\ UNCHANGED <<winvars, dbvars, csdvars, imvars, rqvars, pnvars, advars>>

NextDist == EngineDistance \/ UtilsDistance

SpecDist == InitDist /\ [][NextDist]_vars

\* C21: a comparison with an empty sequence ends in a failure: it never
\* returns a distance or a normalized score.
C21_EmptySequenceFails ==
    (fn.pc \in {"returned", "raised"} /\ (fn.seq1 = << >> \/ fn.seq2 = << >>))
        => fn.pc = "raised"

(***************************************************************************)
(* The value identify_melody ranks windows by.                             *)
(***************************************************************************)
\* distance / (path_length + 1) of the hum of this call and the window at
\* position p, on the alignment path fastdtw realizes for them
NormalizedScoreAt(p) ==
    LET seq1 == im.hum_normalized
        seq2 == WindowAt(im.database, p)[1]
        den1 == Len(im.hum_normalized)
        den2 == Len(im.database[p[1]].val.full_contour)
        scale == HalvingScale(Len(seq1), Len(seq2))
        r == FastDtw([i \in 1..Len(seq1) |-> seq1[i] * den2 * scale],
                     [j \in 1..Len(seq2) |-> seq2[j] * den1 * scale])
    IN  Rat(r.distance, den1 * den2 * scale * (Len(r.path) + 1))

\* C22: the window of the MatchResult is one with the least normalized
\* score distance / (path_length + 1) among all (song, window) pairs.
C22_BestByNormalizedScore ==
    (Matched /\ im.fails = {}) =>
        \E p \in PairsOf(im.database) :
            /\ im.ret.song_title = im.database[p[1]].key
            /\ im.ret.song_pitch = WindowAt(im.database, p)[1]
            /\ \A q \in PairsOf(im.database) :
                  ~RatLess(NormalizedScoreAt(q), NormalizedScoreAt(p))

(***************************************************************************)
(* calculate_similarity (services/dtw.py) called on its own.               *)
(***************************************************************************)
\* the relative pitches and the tempos of the features compared
PitchValues == {-1, 0, 2}
Tempos == {0, 90, 120}

PitchSeqs == UNION { [1..n -> PitchValues] : n \in 0..MaxPitches }

\* the correlation of the two sequences is a rational number, or is not
\* computed at all
Representable(song_pitches, user_pitches) ==
    LET min_len == Min(Len(song_pitches), Len(user_pitches))
        vs == Variance(song_pitches, min_len)
        vu == Variance(user_pitches, min_len)
    IN  \/ vs = 0
        \/ vu = 0
        \/ Covariance(song_pitches, user_pitches, min_len) <= 0
        \/ \E s \in Min(vs, vu)..Max(vs, vu) : s * s = vs * vu

InitSim ==
    /\ \E song_pitches \in PitchSeqs, user_pitches \in PitchSeqs,
          song_tempo \in Tempos, user_tempo \in Tempos :
          /\ Representable(song_pitches, user_pitches)
          /\ fn = [ pc |-> "start", op |-> "calculate_similarity",
                    song_features |-> [relative_pitches |-> song_pitches,
                                       tempo |-> song_tempo],
                    user_features |-> [relative_pitches |-> user_pitches,
                                       tempo |-> user_tempo] ]
    /\ csw = CswIdle
    /\ DbUnused
    /\ CsdUnused
    /\ ImUnused
    /\ RqUnused
    /\ PnUnused
    /\ AdUnused

\* calculate_similarity(song_features, user_features): it returns, with the
\* locals it had
CalculateSimilarity ==
    /\ fn.pc = "start"
    /\ fn.op = "calculate_similarity"
    /\ LET f == SimilarityFrame(fn.song_features, fn.user_features)
       IN  fn' = [ pc |-> "returned", op |-> fn.op,
                   song_features |-> fn.song_features,
                   user_features |-> fn.user_features,
                   caught |-> f.caught,
                   pitch_similarity |-> f.pitch_similarity,
                   tempo_similarity |-> f.tempo_similarity,
                   ret |-> f.ret ]
    /\ UNCHANGED <<winvars, dbvars, csdvars, imvars, rqvars, pnvars, advars>>

NextSim == CalculateSimilarity

SpecSim == InitSim /\ [][NextSim]_vars

\* the two sequences of this call cut to their common length
CommonLen == Min(Len(fn.song_features.relative_pitches),
                 Len(fn.user_features.relative_pitches))
SongVariance == Variance(fn.song_features.relative_pitches, CommonLen)
UserVariance == Variance(fn.user_features.relative_pitches, CommonLen)

\* C23: the pitch term is the Pearson correlation of the sequences cut to
\* their common length when that is positive, and 0 when it is negative or
\* when one of the cut sequences has no variance.
C23_PitchTermFlooredAtZero ==
    (fn.pc = "returned" /\ fn.pitch_similarity # None) =>
        LET cov == Covariance(fn.song_features.relative_pitches,
                              fn.user_features.relative_pitches, CommonLen)
        IN  IF SongVariance > 0 /\ UserVariance > 0 /\ cov > 0
            THEN /\ fn.pitch_similarity.num * fn.pitch_similarity.num
                        * SongVariance * UserVariance
                    = cov * cov * fn.pitch_similarity.den * fn.pitch_similarity.den
            ELSE fn.pitch_similarity = Rat(0, 1)

\* C24: calculate_similarity returns a number from 0 to 100: 0 when a
\* sequence is empty, 0 when both tempos are 0, and else
\* 100 * (0.6 * pitch term + 0.4 * tempo term) with the tempo term
\* max(0, 1 - |ta - tb| / max(ta, tb)).
C24_SimilarityInRange ==
    fn.pc = "returned" =>
        LET ta == fn.song_features.tempo
            tb == fn.user_features.tempo
            empty == \/ fn.song_features.relative_pitches = << >>
                     \/ fn.user_features.relative_pitches = << >>
        IN  /\ fn.ret.num >= 0
            /\ fn.ret.num <= 100 * fn.ret.den
            /\ empty => fn.ret = Rat(0, 1)
            /\ (ta = 0 /\ tb = 0) => fn.ret = Rat(0, 1)
            /\ (~empty /\ (ta > 0 \/ tb > 0)) =>
                  /\ fn.tempo_similarity
                        = RatMax(Rat(0, 1), Rat(Max(ta, tb) - Abs(ta - tb), Max(ta, tb)))
                  /\ fn.ret.num * fn.pitch_similarity.den * fn.tempo_similarity.den
                        = fn.ret.den
                          * (60 * fn.pitch_similarity.num * fn.tempo_similarity.den
                             + 40 * fn.tempo_similarity.num * fn.pitch_similarity.den)

\* a similarity strictly between 0 and 100 made of both terms
C24_Witness ==
    /\ fn.pc = "returned"
    /\ fn.op = "calculate_similarity"
    /\ fn.caught = ""
    /\ fn.pitch_similarity # None
    /\ fn.pitch_similarity.num > 0
    /\ fn.pitch_similarity.den > 2
    /\ fn.tempo_similarity.num > 0
    /\ fn.tempo_similarity.den > 1

(***************************************************************************)
(* normalize_to_intervals (dsp_utils.py).  A pitch is a whole number of    *)
(* quarters of a semitone, an interval a whole number of semitones.        *)
(***************************************************************************)
QuartersPerSemitone == 4

\* normalize_to_intervals(pitch_midi): np.diff, np.round (a tie goes to
\* the even number), np.clip to [-7, 7]; empty for fewer than 2 pitches
normalize_to_intervals(pitch_midi) ==
    IF Len(pitch_midi) < 2 THEN << >>
    ELSE [ i \in 1..(Len(pitch_midi) - 1) |->
             Clip(RoundHalfEven(pitch_midi[i + 1] - pitch_midi[i],
                                QuartersPerSemitone),
                  -7, 7) ]

\* the pitches of the sequences: 0, 0.5, 1.5, 2, 9 and -7.5 semitones
MidiValues == {0, 2, 6, 8, 36, -30}

MidiSeqs == UNION { [1..n -> MidiValues] : n \in 0..MaxMidiLen }

InitIntervals ==
    /\ \E pitch_midi \in MidiSeqs :
          fn = [pc |-> "start", op |-> "normalize_to_intervals",
                pitch_midi |-> pitch_midi]
    /\ csw = CswIdle
    /\ DbUnused
    /\ CsdUnused
    /\ ImUnused
    /\ RqUnused
    /\ PnUnused
    /\ AdUnused

NormalizeToIntervals ==
    /\ fn.pc = "start"
    /\ fn.op = "normalize_to_intervals"
    /\ fn' = [pc |-> "returned", op |-> fn.op, pitch_midi |-> fn.pitch_midi,
              ret |-> normalize_to_intervals(fn.pitch_midi)]
    /\ UNCHANGED <<winvars, dbvars, csdvars, imvars, rqvars, pnvars, advars>>

NextIntervals == NormalizeToIntervals

SpecIntervals == InitIntervals /\ [][NextIntervals]_vars

\* the first differences of the pitches of this call, each rounded to the
\* nearest whole semitone and clipped to [-7, 7]
ClippedDifferences ==
    [ i \in 1..(Len(fn.pitch_midi) - 1) |->
        Clip(RoundHalfEven(fn.pitch_midi[i + 1] - fn.pitch_midi[i],
                           QuartersPerSemitone), -7, 7) ]

\* C25: for n >= 2 pitches the result has n - 1 elements, the rounded and
\* clipped first differences minus their mean; for n < 2 it is empty.
C25_IntervalsMeanSubtracted ==
    fn.pc = "returned" =>
        LET n == Len(fn.pitch_midi)
        IN  IF n < 2 THEN fn.ret = << >>
            ELSE /\ Len(fn.ret) = n - 1
                 /\ \A i \in 1..(n - 1) :
                       (n - 1) * fn.ret[i]
                         = (n - 1) * ClippedDifferences[i] - SeqSum(ClippedDifferences)

(***************************************************************************)
(* The interval features of services/melody.py: _pitches_per_interval,     *)
(* _average_per_interval, _find_relative_pitch, extract_features.          *)
(*                                                                         *)
(* The audio has SamplesPerFrame samples for each frame of pitch_values;   *)
(* an onset is held as the sample it falls on, so that                     *)
(* onset_time / duration is onset / audio_length.                          *)
(***************************************************************************)
SamplesPerFrame == 2

\* 10000 * 2^((2k - 1) / 24) for k = 1..12: the frequency ratios at which
\* round(12 * log2(ratio)) steps from k - 1 to k
SemitoneBounds ==
    << 10293, 10905, 11554, 12241, 12968, 13740,
       14557, 15422, 16339, 17311, 18340, 19431 >>

\* the octaves from 440 Hz up to the octave num/den lies in
RECURSIVE OctaveOf(_, _)
OctaveOf(num, den) ==
    IF num < 440 * den THEN OctaveOf(2 * num, den) - 1
    ELSE IF num >= 880 * den THEN OctaveOf(num, 2 * den) + 1
    ELSE 0

\* num/den brought into the octave from 440 Hz
RECURSIVE InOctave(_, _)
InOctave(num, den) ==
    IF num < 440 * den THEN InOctave(2 * num, den)
    ELSE IF num >= 880 * den THEN InOctave(num, 2 * den)
    ELSE [num |-> num, den |-> den]

\* _get_note_number of the frequency num/den: round(12 * log2(f / 440) + 49)
\* when that number is from 1 to 88 (27.5 Hz to 4186.01 Hz), else 0
get_note_number(num, den) ==
    IF num <= 0 THEN 0
    ELSE IF 2 * num < 55 * den \/ 100 * num > 418601 * den THEN 0
    ELSE LET r == InOctave(num, den)
             semitones == Cardinality({ k \in 1..Len(SemitoneBounds) :
                              SemitoneBounds[k] * 440 * r.den <= 10000 * r.num })
         IN  49 + 12 * OctaveOf(num, den) + semitones

\* _pitches_per_interval: int((onset_time / duration) * total_frames) for
\* each onset, and total_frames at the end
pitches_per_interval(audio_length, pitch_values, onsets) ==
    [ i \in 1..(Len(onsets) + 1) |->
        IF i <= Len(onsets)
        THEN (onsets[i] * Len(pitch_values)) \div audio_length
        ELSE Len(pitch_values) ]

\* the note number of pitch_values[start_idx:end_idx]: of the mean of its
\* pitches above 0, and 0 without any
NoteOfSegment(pitch_values, start_idx, end_idx) ==
    LET segment == PySlice(pitch_values, start_idx, end_idx)
        IsPositive(v) == v > 0
        valid_pitches == SelectSeq(segment, IsPositive)
    IN  IF end_idx > start_idx /\ Len(valid_pitches) > 0
        THEN get_note_number(SeqSum(valid_pitches), Len(valid_pitches))
        ELSE 0

\* Faulty variant: one interval for each onset
IntervalCountAll(onsets) == Len(onsets)

\* for i in range(len(onsets) - 1)
IntervalCount(onsets) == IF Len(onsets) >= 1 THEN Len(onsets) - 1 ELSE 0

\* _average_per_interval
average_per_interval(pitch_values, table, onsets) ==
    [ i \in 1..IntervalCount(onsets) |->
        NoteOfSegment(pitch_values, table[i], table[i + 1]) ]

\* _find_relative_pitch: the steps between consecutive notes, without the
\* steps of 0 and the steps of 22 or more
RECURSIVE find_relative_pitch(_)
find_relative_pitch(avg_pitch_values) ==
    IF Len(avg_pitch_values) < 2 THEN << >>
    ELSE LET pitch_change == avg_pitch_values[2] - avg_pitch_values[1]
             rest == find_relative_pitch(Tail(avg_pitch_values))
         IN  IF pitch_change = 0 \/ Abs(pitch_change) >= 22 THEN rest
             ELSE <<pitch_change>> \o rest

\* the frequencies piptrack gives for a frame, 0 for none
FrameValues == {0, 440, 880}

\* the onsets of an audio of n frames: samples in increasing order
OnsetsOf(n) ==
    { o \in UNION { [1..k -> 0..(SamplesPerFrame * n - 1)] : k \in 0..MaxOnsets } :
        \A i \in 1..(Len(o) - 1) : o[i] < o[i + 1] }

InitMelody ==
    /\ \E n \in 0..MaxPitchFrames :
       \E pitch_values \in [1..n -> FrameValues], onsets \in OnsetsOf(n) :
          fn = [ pc |-> "start", op |-> "extract_features",
                 audio_length |-> SamplesPerFrame * n,
                 pitch_values |-> pitch_values, onsets |-> onsets ]
    /\ csw = CswIdle
    /\ DbUnused
    /\ CsdUnused
    /\ ImUnused
    /\ RqUnused
    /\ PnUnused
    /\ AdUnused

\* extract_features, lines 96-104: the table, the notes, the relative
\* pitches
ExtractFeatures ==
    /\ fn.pc = "start"
    /\ fn.op = "extract_features"
    /\ LET num_of_pitches == pitches_per_interval(fn.audio_length,
                                                  fn.pitch_values, fn.onsets)
           avg_pitches == average_per_interval(fn.pitch_values, num_of_pitches,
                                               fn.onsets)
           relative_pitches == IF Len(avg_pitches) > 1
                               THEN find_relative_pitch(avg_pitches)
                               ELSE << >>
       IN  fn' = [ pc |-> "returned", op |-> fn.op,
                   audio_length |-> fn.audio_length,
                   pitch_values |-> fn.pitch_values, onsets |-> fn.onsets,
                   num_of_pitches |-> num_of_pitches,
                   avg_pitches |-> avg_pitches,
                   relative_pitches |-> relative_pitches ]
    /\ UNCHANGED <<winvars, dbvars, csdvars, imvars, rqvars, pnvars, advars>>

NextMelody == ExtractFeatures

SpecMelody == InitMelody /\ [][NextMelody]_vars

\* C26: for N onsets the table has N + 1 entries and there are
\* max(N - 1, 0) notes, note i taken from the frames between entries i and
\* i + 1 of the first N entries; the frames from the last onset on count
\* for no note, and fewer than 3 onsets give no relative pitches.
C26_LastIntervalDropped ==
    fn.pc = "returned" =>
        LET N == Len(fn.onsets)
            frames(a, b) == { k \in 1..Len(fn.pitch_values) : a < k /\ k <= b }
            voiced(a, b) == { k \in frames(a, b) : fn.pitch_values[k] > 0 }
        IN  /\ Len(fn.num_of_pitches) = N + 1
            /\ fn.num_of_pitches[N + 1] = Len(fn.pitch_values)
            /\ Len(fn.avg_pitches) = IF N >= 1 THEN N - 1 ELSE 0
            /\ \A i \in 1..Len(fn.avg_pitches) :
                  LET v == voiced(fn.num_of_pitches[i], fn.num_of_pitches[i + 1])
                  IN  /\ v = {} => fn.avg_pitches[i] = 0
                      /\ (\A k \in v : fn.pitch_values[k] = 440) /\ v # {}
                            => fn.avg_pitches[i] = 49
                      /\ (\A k \in v : fn.pitch_values[k] = 880) /\ v # {}
                            => fn.avg_pitches[i] = 61
                      /\ v # {} => fn.avg_pitches[i] \in 49..61
            /\ N < 3 => fn.relative_pitches = << >>

\* three onsets, voiced frames after the last one, and a relative pitch
C26_Witness ==
    /\ fn.pc = "returned"
    /\ fn.op = "extract_features"
    /\ Len(fn.onsets) = 3
    /\ fn.num_of_pitches[3] < Len(fn.pitch_values)
    /\ fn.pitch_values[Len(fn.pitch_values)] > 0
    /\ Len(fn.relative_pitches) = 1

(***************************************************************************)
(* add_new_songs (services/add_songs.py).                                  *)
(*                                                                         *)
(* A song id is a folder name, held as its rank in sorted order; 0 stands  *)
(* for an entry without an id.  A database file is absent or holds a list  *)
(* of entries.                                                             *)
(***************************************************************************)
\* a database file that does not exist, and one that holds a list
Absent == [exists |-> FALSE, value |-> << >>]
JsonFile(list) == [exists |-> TRUE, value |-> list]

SongIds == 1..MaxAddFolders

\* what a song folder holds: all that is needed, no info.json, an
\* info.json that json.load fails on, no audio file, audio that cannot be
\* loaded, features without relative pitches
FolderKinds ==
    {"ok", "no_info", "bad_info", "no_audio", "unloadable", "no_pitches"}

\* the folder passes every check of the loop body (lines 69-126)
Processable(kind) == kind = "ok"

FrontendEntry(song_id) == [id |-> song_id, title |-> song_id]
BackendEntry(song_id) ==
    [id |-> song_id, name |-> song_id, relative_pitches |-> <<2, -1>>]

\* {s.get('id') for s in db if s.get('id')}
ExistingIds(db) == { db[i].id : i \in 1..Len(db) } \ {0}

\* Faulty variant: the song is appended whether or not the id is there
MissingAlways(song_id, existing_ids) == TRUE

\* if song_id not in existing_ids
Missing(song_id, existing_ids) == song_id \notin existing_ids

\* the loop over sorted(song_folders) from folder song_id on: the two
\* lists and new_songs_added when it ends
RECURSIVE AddFrom(_, _, _, _, _)
AddFrom(song_id, folders, frontend_db, backend_db, new_songs_added) ==
    IF song_id > MaxAddFolders
    THEN [frontend_db |-> frontend_db, backend_db |-> backend_db,
          new_songs_added |-> new_songs_added]
    ELSE IF \/ folders[song_id] = "none"
            \/ /\ song_id \in ExistingIds(frontend_db)
               /\ song_id \in ExistingIds(backend_db)
            \/ ~Processable(folders[song_id])
    THEN AddFrom(song_id + 1, folders, frontend_db, backend_db, new_songs_added)
    ELSE AddFrom(song_id + 1, folders,
                 IF Missing(song_id, ExistingIds(frontend_db))
                 THEN Append(frontend_db, FrontendEntry(song_id))
                 ELSE frontend_db,
                 IF Missing(song_id, ExistingIds(backend_db))
                 THEN Append(backend_db, BackendEntry(song_id))
                 ELSE backend_db,
                 new_songs_added + 1)

\* the lists a database file may hold before the first run: entries with
\* distinct ids, some without an id
DbLists(entries) ==
    { l \in UNION { [1..n -> entries] : n \in 0..MaxAddFolders } :
        \A i, j \in 1..Len(l) : i # j => l[i] # l[j] }

FrontendEntries == { FrontendEntry(k) : k \in SongIds \cup {0} }
BackendEntries == { BackendEntry(k) : k \in SongIds \cup {0} }

InitAdd ==
    /\ \E frontend \in { JsonFile(l) : l \in DbLists(FrontendEntries) } \cup {Absent},
          backend \in { JsonFile(l) : l \in DbLists(BackendEntries) } \cup {Absent},
          exists \in BOOLEAN,
          folders \in [SongIds -> FolderKinds \cup {"none"}] :
          /\ ~exists => \A k \in SongIds : folders[k] = "none"
          /\ ad = [ pc |-> "ready", frontend_file |-> frontend,
                    backend_file |-> backend,
                    raw_data |-> [exists |-> exists, folders |-> folders],
                    runs |-> 0, new_songs_added |-> 0,
                    frontend_writes |-> 0, backend_writes |-> 0 ]
    /\ csw = CswIdle
    /\ DbUnused
    /\ CsdUnused
    /\ ImUnused
    /\ RqUnused
    /\ PnUnused
    /\ FnUnused

\* json.load of a database file, [] when the file does not exist
LoadedList(file) == IF file.exists THEN file.value ELSE << >>

\* add_new_songs(): RAW_DATA_DIR does not exist
AddNoRawData ==
    /\ ad.pc = "ready"
    /\ ad.runs < MaxRuns
    /\ ~ad.raw_data.exists
    /\ ad' = [ad EXCEPT !.runs = @ + 1, !.new_songs_added = 0]
    /\ UNCHANGED <<winvars, dbvars, csdvars, imvars, rqvars, pnvars, fnvars>>

\* add_new_songs(): no folder gives a new song, no file is written
AddNothing ==
    /\ ad.pc = "ready"
    /\ ad.runs < MaxRuns
    /\ ad.raw_data.exists
    /\ LET r == AddFrom(1, ad.raw_data.folders, LoadedList(ad.frontend_file),
                        LoadedList(ad.backend_file), 0)
       IN  /\ r.new_songs_added = 0
           /\ ad' = [ad EXCEPT !.runs = @ + 1, !.new_songs_added = 0]
    /\ UNCHANGED <<winvars, dbvars, csdvars, imvars, rqvars, pnvars, fnvars>>

\* add_new_songs(): songs were added, both files are written
AddAndSave ==
    /\ ad.pc = "ready"
    /\ ad.runs < MaxRuns
    /\ ad.raw_data.exists
    /\ LET r == AddFrom(1, ad.raw_data.folders, LoadedList(ad.frontend_file),
                        LoadedList(ad.backend_file), 0)
       IN  /\ r.new_songs_added > 0
           /\ ad' = [ad EXCEPT !.runs = @ + 1,
                               !.new_songs_added = r.new_songs_added,
                               !.frontend_file = JsonFile(r.frontend_db),
                               !.backend_file = JsonFile(r.backend_db),
                               !.frontend_writes = @ + 1,
                               !.backend_writes = @ + 1]
    /\ UNCHANGED <<winvars, dbvars, csdvars, imvars, rqvars, pnvars, fnvars>>

NextAdd == AddNoRawData \/ AddNothing \/ AddAndSave

SpecAdd == InitAdd /\ [][NextAdd]_vars

\* the list new is the list old with entries appended, none of them with
\* an id that old has or that is appended twice
OnlyAppends(old, new) ==
    /\ Len(new) >= Len(old)
    /\ SubSeq(new, 1, Len(old)) = old
    /\ \A i \in (Len(old) + 1)..Len(new) :
          /\ new[i].id \notin ExistingIds(old)
          /\ \A j \in (Len(old) + 1)..Len(new) : new[i].id = new[j].id => i = j

\* C27: a run keeps every entry of both databases in its place and only
\* appends entries whose id the database did not have; a run that adds no
\* song writes no file, and so does every run after the first.
C27_OnlyAddsMissingSongs ==
    [][ /\ OnlyAppends(LoadedList(ad.frontend_file), LoadedList(ad'.frontend_file))
        /\ OnlyAppends(LoadedList(ad.backend_file), LoadedList(ad'.backend_file))
        /\ (/\ LoadedList(ad'.frontend_file) = LoadedList(ad.frontend_file)
            /\ LoadedList(ad'.backend_file) = LoadedList(ad.backend_file))
           => /\ ad'.frontend_file = ad.frontend_file
              /\ ad'.backend_file = ad.backend_file
              /\ ad'.frontend_writes = ad.frontend_writes
              /\ ad'.backend_writes = ad.backend_writes
        /\ ad.runs >= 1
           => /\ ad'.frontend_file = ad.frontend_file
              /\ ad'.backend_file = ad.backend_file
              /\ ad'.frontend_writes = ad.frontend_writes
              /\ ad'.backend_writes = ad.backend_writes ]_vars

\* a first run appended a song to the backend database only, behind an
\* entry it kept, and the second run wrote nothing
C27_Witness ==
    /\ ad.pc = "ready"
    /\ ad.runs = 2
    /\ ad.frontend_writes = 1
    /\ ad.new_songs_added = 0
    /\ Len(ad.backend_file.value) >= 2
    /\ Len(ad.frontend_file.value) = 1
    /\ ad.backend_file.value[1].id = 0

(***************************************************************************)
(* identify_melody on the index load_database builds for one song file     *)
(* with the default windows (WINDOW_DURATION_SEC, WINDOW_OVERLAP_SEC).     *)
(***************************************************************************)
\* the pitch track of a song of n frames, in one of two melodic shapes
SongTrack(n, shape) ==
    [i \in 1..n |-> IF i % (shape + 1) = 0 THEN 880 ELSE 440]

\* the frames of the songs: short ones, one frame less than a window, a
\* window exactly, and more than a window
SongLengths ==
    (0..MaxShortFrames)
    \cup { window_frames(SAMPLE_RATE, WINDOW_DURATION_SEC * TicksPerSec) - 1,
           window_frames(SAMPLE_RATE, WINDOW_DURATION_SEC * TicksPerSec),
           LongSongFrames }

\* songs_cache after load_database has scanned a directory with one file
CacheOfFile(file) ==
    LET p == ProcessFile(file)
    IN  IF p.outcome = "stored"
        THEN DictSet(<< >>, p.song_title, p.entry) ELSE << >>

\* the hum can be processed: it is loaded and has enough voiced frames
HumProcessed(hum) ==
    hum.readable /\ normalize_pitch_contour(hum.f0).raised = ""

\* A song no longer than MaxShortFrames is compared with every hum; a
\* longer one is indexed, and asked for with the hums identify_melody gives
\* up on before it compares.
InitIndexed ==
    /\ \E n \in SongLengths, shape \in 1..2, hum \in QueryHums :
           /\ n <= MaxShortFrames \/ ~HumProcessed(hum)
           /\ im = [ pc |-> "start",
                     database |-> CacheOfFile([name |-> <<"d", ".", "m", "p", "3">>,
                                               readable |-> TRUE,
                                               f0 |-> SongTrack(n, shape)]),
                     hum |-> hum, fails |-> {}, hum_normalized |-> << >>,
                     s |-> 0, w |-> 0,
                     best_distance |-> Infinity, best_match |-> None,
                     ret |-> None, exc |-> "" ]
    /\ csw = CswIdle
    /\ DbUnused
    /\ CsdUnused
    /\ RqUnused
    /\ PnUnused
    /\ FnUnused
    /\ AdUnused

SpecIndexed == InitIndexed /\ [][NextMatch]_vars

\* C28: every song of the index has a window, and a call of
\* identify_melody that has ended has returned a match whenever the index
\* holds a song and the hum can be processed.
C28_IndexedSongHasWindow ==
    /\ \A k \in 1..Len(im.database) : Len(im.database[k].val.windows) >= 1
    /\ (im.pc \in {"returned", "raised"} /\ Len(im.database) > 0
          /\ HumProcessed(im.hum))
        => Matched

\* a match in a song shorter than a window: its one window is the remainder
C28_Witness ==
    /\ Matched
    /\ Len(im.database) = 1
    /\ Len(im.database[1].val.windows) = 1
    /\ Len(im.database[1].val.windows[1][1]) = MIN_VALID_FRAMES
    /\ im.ret.song_title = <<"d">>

\* C29: a load_database call that has returned, whether it built the index
\* or found it built, has returned the number of songs in songs_cache; two
\* files of one title count as the one entry they share.
C29_CountIsIndexSize ==
    \A t \in Threads :
        (thr[t].pc = "idle" /\ thr[t].ret.kind = "count")
            => thr[t].ret.n = Len(songs_cache)

(***************************************************************************)
(* The requests /upload, /record and /match (routes/humming.py).  The body *)
(* of every handler is one try statement; the bytes of a recording are     *)
(* held as a string.                                                       *)
(***************************************************************************)
\* the recordings: nothing, a WAV file, a file with the EBML signature of
\* WebM, a file that names webm in its first 100 bytes
NoBytes == ""
WavBytes == "RIFF"
EbmlBytes == "\\x1aE\\xdf\\xa3"
WebmNamedBytes == "OggS webm"
Recordings == {NoBytes, WavBytes, EbmlBytes, WebmNamedBytes}

\* audio_data[:4] == b'\x1aE\xdf\xa3' or b'webm' in audio_data[:100].lower()
IsWebM(audio_data) == audio_data \in {EbmlBytes, WebmNamedBytes}

\* what await request.body() raises: the client went away (raised without
\* a message), or the stream was read before
BodyExceptions ==
    { Exception("ClientDisconnect", ""),
      Exception("RuntimeError", "Stream consumed") }

\* Faulty variant: the message alone, as /upload and /match report it
RecordErrorBare(e) == Str(e)

\* f"Processing error: {str(e)}"
RecordError(e) == "Processing error: " \o Str(e)

\* the part /upload and /record share: features, database, matches
\* (no_songs is the message for an empty database)
MatchFeatures(r, no_features, no_songs) ==
    IF r.features = None
    THEN SearchResponse(FALSE, None, << >>, no_features)
    ELSE IF r.database = << >>
    THEN SearchResponse(FALSE, None, << >>, no_songs)
    ELSE IF r.malformed
    THEN [raised |-> MalformedSongException]
    ELSE SearchResponse(TRUE, r.features,
                        find_best_matches(r.features, r.database, TOP_N), None)

\* record_audio: the body of the try statement, a response or an exception
RecordBody(r) ==
    LET from_file == IF r.file = None THEN NoBytes ELSE r.file.data
        reads_body == from_file = NoBytes
        audio_data == IF reads_body THEN r.body ELSE from_file
    IN  IF reads_body /\ r.body_exc # None
        THEN [raised |-> r.body_exc]
        ELSE IF audio_data = NoBytes
        THEN SearchResponse(FALSE, None, << >>, "No audio data received")
        ELSE IF IsWebM(audio_data) /\ ~r.converts
        THEN SearchResponse(FALSE, None, << >>,
                            "Failed to convert audio format. Install ffmpeg.")
        ELSE IF ~r.audio_loads
        THEN SearchResponse(FALSE, None, << >>, "Could not load audio data.")
        ELSE MatchFeatures(r, "Could not extract features.",
                           "No songs in database.")

\* record_audio: the response of the handler
RecordResponse(r) ==
    LET body == RecordBody(r)
    IN  IF "raised" \in DOMAIN body
        THEN SearchResponse(FALSE, None, << >>, RecordError(body.raised))
        ELSE body

\* match_song: the response of the handler
MatchResponse(r) ==
    IF r.malformed
    THEN SearchResponse(FALSE, None, << >>, Str(MalformedSongException))
    ELSE SearchResponse(TRUE, None,
                        find_best_matches(r.features, r.database, TOP_N), None)

\* the databases of the requests: of one song at most, or all the songs
RouteDatabases ==
    { d \in Databases : Len(d) <= 1 \/ Len(d) > MaxDbSongs }

\* a request: /upload with what saving raises; /record with the uploaded
\* file, the raw body and what reading it raises, whether ffmpeg converts;
\* /match with the features sent
InitRoutes ==
    /\ \E database \in RouteDatabases, malformed \in BOOLEAN :
          \/ \E features \in QueryFeatures \cup {None},
                exc \in SaveExceptions \cup {None}, audio_loads \in BOOLEAN :
                rq = [ pc |-> "start", op |-> "upload_audio",
                       database |-> database, features |-> features,
                       saved |-> (exc = None), exc |-> exc,
                       audio_loads |-> audio_loads, malformed |-> malformed ]
          \/ \E features \in QueryFeatures \cup {None},
                file \in {None} \cup { [data |-> b] : b \in Recordings },
                body \in Recordings, body_exc \in BodyExceptions \cup {None},
                converts \in BOOLEAN, audio_loads \in BOOLEAN :
                rq = [ pc |-> "start", op |-> "record_audio",
                       database |-> database, features |-> features,
                       file |-> file, body |-> body, body_exc |-> body_exc,
                       converts |-> converts, audio_loads |-> audio_loads,
                       malformed |-> malformed ]
          \/ \E features \in QueryFeatures :
                rq = [ pc |-> "start", op |-> "match_song",
                       database |-> database, features |-> features,
                       malformed |-> malformed ]
    /\ csw = CswIdle
    /\ DbUnused
    /\ CsdUnused
    /\ ImUnused
    /\ PnUnused
    /\ FnUnused
    /\ AdUnused

RecordAudio ==
    /\ rq.pc = "start"
    /\ rq.op = "record_audio"
    /\ rq' = [rq EXCEPT !.pc = "responded"] @@ [response |-> RecordResponse(rq)]
    /\ UNCHANGED <<winvars, dbvars, csdvars, imvars, pnvars, fnvars, advars>>

MatchSong ==
    /\ rq.pc = "start"
    /\ rq.op = "match_song"
    /\ rq' = [rq EXCEPT !.pc = "responded"] @@ [response |-> MatchResponse(rq)]
    /\ UNCHANGED <<winvars, dbvars, csdvars, imvars, pnvars, fnvars, advars>>

NextRoutes == UploadAudio \/ RecordAudio \/ MatchSong

SpecRoutes == InitRoutes /\ [][NextRoutes]_vars

\* C30: a request that has been handled has one SearchResponse: a success
\* without an error, or a failure with a non-empty error message and no
\* match.
C30_OneResponsePerRequest ==
    rq.pc # "start" =>
        /\ rq.pc = "responded"
        /\ DOMAIN rq.response = {"success", "features", "matches", "error"}
        /\ IF rq.response.success
           THEN rq.response.error = None
           ELSE /\ rq.response.error # ""
                /\ rq.response.matches = << >>

\* a /record request whose client went away while the body was read
C30_Witness ==
    /\ rq.pc = "responded"
    /\ rq.op = "record_audio"
    /\ rq.body_exc # None
    /\ Str(rq.body_exc) = ""
    /\ ~rq.response.success
    /\ rq.response.error = "Processing error: "

=============================================================================
